---- MODULE Spec2Model ----
(***************************************************************************)
(* Threaded prime search, four variants (STDISCM-PS1).                     *)
(*   variant 1: range partition, immediate print under print_mtx           *)
(*   variant 2: range partition, per-worker buckets, k-way merge, print    *)
(*   variant 3: per-number divisor partition, immediate print              *)
(*   variant 4: per-number divisor partition, collect, sort, print         *)
(* All four share Config, load_config and the START/END framing.           *)
(***************************************************************************)
EXTENDS Integers, Sequences, FiniteSets, TLC

(***************************************************************************)
(* Bounds of the model.                                                    *)
(***************************************************************************)
\* largest worker count that is run
MaxThreads == 3
\* largest limit that is run by the range-partition variants (1 and 2)
MaxLimit == 12
\* largest limit that is run by the divisor-partition variants (3 and 4)
DivLimit == 121
\* largest number of lines of the configuration file
MaxLines == 2
\* largest n handed to a single call of is_prime_parallel
MaxN == 175
\* largest worker count handed to a single call of is_prime_parallel
MaxParThreads == 4
\* largest n handed to is_prime_trial from its first statement
MaxTrialN == 300
\* number of loop iterations before the last one that are run for a 63-bit n
WideBack == 2
\* largest floor(sqrt(n)) for which the divisor shares are compared
MaxHi == 40
\* the merge run on its own: largest number of buckets, largest value held by
\* a bucket, largest number of elements in all buckets together
MaxMergeBuckets == 3
MaxMergeVal == 4
MaxMergeTotal == 4
\* the run with the default configuration: the number of candidates each range
\* worker has left where the end of the run is taken up again
MaxTail == 3
\* largest limit and worker count of the partition loop run on its own
MaxPartLimit == 24
MaxPartThreads == 6

(***************************************************************************)
(* Program constants.                                                      *)
(***************************************************************************)
DefaultThreads == 4
DefaultLimit == 100000
nmin == 2
\* INT_MAX and LLONG_MAX as decimal text (std::stoi returns int, std::stoll long long)
INT_MAX == <<"2", "1", "4", "7", "4", "8", "3", "6", "4", "7">>
LLONG_MAX == <<"9", "2", "2", "3", "3", "7", "2", "0", "3", "6", "8", "5", "4", "7", "7", "5", "8", "0", "7">>

Max(x, y) == IF x >= y THEN x ELSE y
Min(x, y) == IF x <= y THEN x ELSE y

(***************************************************************************)
(* Text of the configuration file.  A value is a sequence of characters;   *)
(* a line is blank, a comment, a line without '=', or key=value.           *)
(***************************************************************************)
Digits == <<"0", "1", "2", "3", "4", "5", "6", "7", "8", "9">>
IsDigit(c) == \E k \in 1..10 : Digits[k] = c
DigitVal(c) == (CHOOSE k \in 1..10 : Digits[k] = c) - 1
IsSpace(c) == c \in {" ", "\t", "\r", "\n"}

\* the decimal text of an integer (used to write the input files)
RECURSIVE DecNat(_)
DecNat(k) == IF k < 10 THEN <<Digits[k + 1]>>
             ELSE DecNat(k \div 10) \o <<Digits[(k % 10) + 1]>>
Dec(k) == IF k < 0 THEN <<"-">> \o DecNat(-k) ELSE DecNat(k)

\* trim: s.substr(find_first_not_of(ws), find_last_not_of(ws) - first + 1)
RECURSIVE DropLeadingSpace(_)
DropLeadingSpace(s) ==
    IF s = <<>> THEN <<>>
    ELSE IF IsSpace(Head(s)) THEN DropLeadingSpace(Tail(s)) ELSE s
RECURSIVE DropTrailingSpace(_)
DropTrailingSpace(s) ==
    IF s = <<>> THEN <<>>
    ELSE IF IsSpace(s[Len(s)]) THEN DropTrailingSpace(SubSeq(s, 1, Len(s) - 1))
    ELSE s
trim(s) == DropTrailingSpace(DropLeadingSpace(s))

\* the longest prefix of digits
RECURSIVE DigitPrefix(_)
DigitPrefix(s) ==
    IF s = <<>> \/ ~IsDigit(Head(s)) THEN <<>>
    ELSE <<Head(s)>> \o DigitPrefix(Tail(s))
RECURSIVE DigitsValue(_, _)
DigitsValue(s, acc) ==
    IF s = <<>> THEN acc ELSE DigitsValue(Tail(s), acc * 10 + DigitVal(Head(s)))

RECURSIVE DropLeadingZeros(_)
DropLeadingZeros(s) ==
    IF Len(s) <= 1 \/ Head(s) # "0" THEN s ELSE DropLeadingZeros(Tail(s))
\* a > b for two digit texts of the same length
RECURSIVE DigitsGreaterSameLen(_, _)
DigitsGreaterSameLen(a, b) ==
    IF a = <<>> THEN FALSE
    ELSE IF Head(a) # Head(b) THEN DigitVal(Head(a)) > DigitVal(Head(b))
    ELSE DigitsGreaterSameLen(Tail(a), Tail(b))
\* the magnitude ds exceeds the magnitude maxv (+1 when negative: -maxv-1 fits)
ExceedsRange(ds, maxv, neg) ==
    LET a == DropLeadingZeros(ds)
    IN  IF Len(a) # Len(maxv) THEN Len(a) > Len(maxv)
        ELSE DigitsGreaterSameLen(a, maxv)
             /\ ~(neg /\ SubSeq(a, 1, Len(a) - 1) = SubSeq(maxv, 1, Len(maxv) - 1)
                      /\ DigitVal(a[Len(a)]) = DigitVal(maxv[Len(maxv)]) + 1)

\* the white space std::stoi / std::stoll skip before the number (strtol
\* skips with isspace): trim's four characters, form feed and vertical tab
VerticalTab == ""
isspace(c) == c \in {" ", "\t", "\n", VerticalTab, "\f", "\r"}
RECURSIVE SkipLeadingSpace(_)
SkipLeadingSpace(s) ==
    IF s = <<>> THEN <<>>
    ELSE IF isspace(Head(s)) THEN SkipLeadingSpace(Tail(s)) ELSE s

\* std::stoi / std::stoll: skip white space, an optional sign, then digits;
\* trailing characters are ignored; no digits throws invalid_argument, a
\* value outside [-maxv-1, maxv] throws out_of_range.
StrToInt(s, maxv) ==
    LET s1 == SkipLeadingSpace(s)
        signed == s1 # <<>> /\ Head(s1) \in {"-", "+"}
        neg == s1 # <<>> /\ Head(s1) = "-"
        s2 == IF signed THEN Tail(s1) ELSE s1
        ds == DigitPrefix(s2)
    IN  IF ds = <<>> THEN [ok |-> FALSE, err |-> "invalid_argument", val |-> 0]
        ELSE IF ExceedsRange(ds, maxv, neg)
             THEN [ok |-> FALSE, err |-> "out_of_range", val |-> 0]
             ELSE [ok |-> TRUE, err |-> "none",
                   val |-> IF neg THEN -DigitsValue(ds, 0) ELSE DigitsValue(ds, 0)]
stoi(s) == StrToInt(s, INT_MAX)
stoll(s) == StrToInt(s, LLONG_MAX)

Config == [threads |-> DefaultThreads, limit |-> DefaultLimit]

\* one pass of the getline loop over the remaining lines, c the Config so far;
\* an exception thrown by stoi/stoll is not caught anywhere.
RECURSIVE ReadLines(_, _)
ReadLines(lines, c) ==
    IF lines = <<>> THEN [thrown |-> "none", c |-> c]
    ELSE LET line == Head(lines)
             v == trim(line.v)
         IN  IF line.kind # "kv" THEN ReadLines(Tail(lines), c)
             ELSE IF line.k = "threads"
                  THEN IF stoi(v).ok
                       THEN ReadLines(Tail(lines), [c EXCEPT !.threads = stoi(v).val])
                       ELSE [thrown |-> stoi(v).err, c |-> c]
             ELSE IF line.k = "limit"
                  THEN IF stoll(v).ok
                       THEN ReadLines(Tail(lines), [c EXCEPT !.limit = stoll(v).val])
                       ELSE [thrown |-> stoll(v).err, c |-> c]
             ELSE ReadLines(Tail(lines), c)

\* variant of Validate that leaves the limit as read
ValidateNoClamp(c, hc) ==
    [threads |-> IF c.threads <= 0 THEN Max(1, hc) ELSE c.threads,
     limit   |-> c.limit]
\* the validation at the end of load_config; hc is thread::hardware_concurrency()
Validate(c, hc) ==
    [threads |-> IF c.threads <= 0 THEN Max(1, hc) ELSE c.threads,
     limit   |-> IF c.limit < 2 THEN 2 ELSE c.limit]

(***************************************************************************)
(* Primality Tester.                                                       *)
(***************************************************************************)
\* for (d = 5; d * d <= n; d += 6) if (n % d == 0 || n % (d + 2) == 0) return false;
RECURSIVE TrialLoop(_, _)
TrialLoop(m, d) ==
    IF d * d > m THEN TRUE
    ELSE IF m % d = 0 \/ m % (d + 2) = 0 THEN FALSE
    ELSE TrialLoop(m, d + 6)

\* variant of is_prime_trial that answers false for every multiple of 3
is_prime_trial_no3(m) ==
    IF m < 2 THEN FALSE
    ELSE IF m % 2 = 0 THEN m = 2
    ELSE IF m % 3 = 0 THEN FALSE
    ELSE TrialLoop(m, 5)

is_prime_trial(m) ==
    IF m < 2 THEN FALSE
    ELSE IF m % 2 = 0 THEN m = 2
    ELSE IF m % 3 = 0 THEN m = 3
    ELSE TrialLoop(m, 5)

\* ground truth: m has no divisor strictly between 1 and m
IsPrime(m) == m >= 2 /\ \A d \in 2..(m - 1) : m % d # 0
PrimesUpTo(L) == {m \in 2..L : IsPrime(m)}

\* (long long)floor(sqrt((long double)n)): the largest h with h * h <= n
RECURSIVE SqrtFrom(_, _)
SqrtFrom(m, h) == IF (h + 1) * (h + 1) > m THEN h ELSE SqrtFrom(m, h + 1)
FloorSqrt(m) == SqrtFrom(m, 0)

(***************************************************************************)
(* Range Partitioner: span, chunk, rem and the length of sub-range i.      *)
(***************************************************************************)
Span(nmax) == IF nmax >= nmin THEN nmax - nmin + 1 ELSE 0
Chunk(nmax, t) == IF t > 0 THEN Span(nmax) \div t ELSE Span(nmax)
Rem(nmax, t) == IF t > 0 THEN Span(nmax) % t ELSE 0
\* variant of RangeLen that gives the extra element to one worker too many
RangeLenOffByOne(nmax, t, idx) ==
    Chunk(nmax, t) + (IF idx <= Rem(nmax, t) THEN 1 ELSE 0)
RangeLen(nmax, t, idx) == Chunk(nmax, t) + (IF idx < Rem(nmax, t) THEN 1 ELSE 0)

(***************************************************************************)
(* long long arithmetic beyond the range of the checker's integers.  A     *)
(* non-negative value is the sequence of its decimal digits, the most      *)
(* significant first, without a leading zero.                              *)
(***************************************************************************)
RECURSIVE LLOf(_)
LLOf(k) == IF k < 10 THEN <<k>> ELSE LLOf(k \div 10) \o <<k % 10>>
RECURSIVE LLValFrom(_, _)
LLValFrom(a, acc) == IF a = <<>> THEN acc ELSE LLValFrom(Tail(a), acc * 10 + Head(a))
LLVal(a) == LLValFrom(a, 0)
RECURSIVE LLNorm(_)
LLNorm(a) == IF Len(a) <= 1 \/ Head(a) # 0 THEN a ELSE LLNorm(Tail(a))
\* the k-th digit from the right, 0 beyond the most significant one
LLDigit(a, k) == IF k <= Len(a) THEN a[Len(a) + 1 - k] ELSE 0
\* a < b
LLLess(a, b) ==
    IF Len(a) # Len(b) THEN Len(a) < Len(b)
    ELSE \E k \in 1..Len(a) : a[k] < b[k] /\ \A j \in 1..(k - 1) : a[j] = b[j]
RECURSIVE LLAddFrom(_, _, _, _)
LLAddFrom(a, b, k, carry) ==
    IF k > Max(Len(a), Len(b)) THEN (IF carry > 0 THEN <<carry>> ELSE <<>>)
    ELSE LET t == LLDigit(a, k) + LLDigit(b, k) + carry
         IN  LLAddFrom(a, b, k + 1, t \div 10) \o <<t % 10>>
\* a + b
LLAdd(a, b) == LLAddFrom(a, b, 1, 0)
RECURSIVE LLSubFrom(_, _, _, _)
LLSubFrom(a, b, k, borrow) ==
    IF k > Len(a) THEN <<>>
    ELSE LET t == LLDigit(a, k) - LLDigit(b, k) - borrow
         IN  LLSubFrom(a, b, k + 1, IF t < 0 THEN 1 ELSE 0)
               \o <<IF t < 0 THEN t + 10 ELSE t>>
\* a - b for a >= b
LLSub(a, b) == LLNorm(LLSubFrom(a, b, 1, 0))
RECURSIVE LLMulDigitFrom(_, _, _, _)
LLMulDigitFrom(a, m, k, carry) ==
    IF k > Len(a) THEN (IF carry > 0 THEN <<carry>> ELSE <<>>)
    ELSE LET t == LLDigit(a, k) * m + carry
         IN  LLMulDigitFrom(a, m, k + 1, t \div 10) \o <<t % 10>>
LLMulDigit(a, m) == LLNorm(LLMulDigitFrom(a, m, 1, 0))
\* a * b, not reduced to 64 bits
RECURSIVE LLMul(_, _)
LLMul(a, b) ==
    IF Len(b) = 1 THEN LLMulDigit(a, b[1])
    ELSE LLAdd(LLNorm(LLMul(a, SubSeq(b, 1, Len(b) - 1)) \o <<0>>),
               LLMulDigit(a, b[Len(b)]))
\* r % b for r < 10 * b: one step of the long division
LLRemStep(r, b) ==
    LET q == CHOOSE c \in 0..9 : /\ ~LLLess(r, LLMulDigit(b, c))
                                /\ LLLess(r, LLMulDigit(b, c + 1))
    IN  LLSub(r, LLMulDigit(b, q))
\* a % b for a >= 0, b > 0
RECURSIVE LLMod(_, _)
LLMod(a, b) ==
    IF a = <<>> THEN <<0>>
    ELSE LET r == LLMod(SubSeq(a, 1, Len(a) - 1), b)
         IN  IF r = <<>> THEN r ELSE LLRemStep(LLNorm(r \o <<a[Len(a)]>>), b)
\* the value is not representable in a long long: signed overflow
LLOverflows(a) == ExceedsRange([k \in 1..Len(a) |-> Digits[a[k] + 1]], LLONG_MAX, FALSE)

(***************************************************************************)
(* State.                                                                  *)
(***************************************************************************)
VARIABLES
    variant,    \* which of the four executables runs
    file,       \* config.txt: whether it can be opened, and the lines not yet read
    cfg,        \* Config cfg of main
    pc,         \* position of the main thread
    out,        \* standard output, a sequence of fragments
    err,        \* standard error, a sequence of lines
    exitCode,   \* "none" while running, "0" after return 0, "SIGABRT" after std::terminate
    i,          \* index of the spawn loop (variants 1, 2)
    start,      \* long long start of the spawn loop
    threads,    \* vector<thread> threads: the launched range workers
    spawned,    \* int spawned (variant 2)
    joined,     \* number of threads already joined by the join loop
    print_mtx,  \* mutex print_mtx: the set of workers holding it
    buckets,    \* vector<vector<long long>> buckets (variant 2)
    pq,         \* priority_queue<Node> pq (variant 2)
    merged,     \* vector<pair<long long,int>> merged (variant 2)
    oi,         \* position of the output loop over merged / primes
    n,          \* candidate of the sequential loop (variants 3, 4)
    primes,     \* vector<long long> primes (variant 4)
    hi,         \* long long hi of is_prime_parallel
    composite,  \* atomic<bool> composite of is_prime_parallel
    workers,    \* vector<thread> workers of is_prime_parallel
    result,     \* value returned by the last call of is_prime_parallel
    trial,      \* one call of is_prime_trial followed on its own: n, d, position, return value
    created     \* number of divisor threads constructed so far by is_prime_parallel

vars == <<variant, file, cfg, pc, out, err, exitCode, i, start, threads, spawned,
          joined, print_mtx, buckets, pq, merged, oi, n, primes, hi, composite,
          workers, result, trial, created>>

rangeVars == <<i, start, threads, spawned, joined, print_mtx, buckets, pq, merged, oi>>
divVars == <<n, primes, hi, composite, workers, result>>
cfgVars == <<variant, file, cfg>>

\* const int T = max(1, cfg.threads);  const long long nmax = cfg.limit;
T == Max(1, cfg.threads)
nmax == cfg.limit

\* the largest limit the model runs for the executable chosen; the workers of a
\* larger configuration are launched but their scan is not explored
RunLimit == IF variant \in {1, 2} THEN MaxLimit ELSE DivLimit
\* the default configuration at the end of its scan: every range worker has
\* fewer than MaxTail candidates left (variants 1, 2), or none of the
\* candidates left reaches the thread creation (variants 3, 4)
NearEnd ==
    /\ cfg = Config
    /\ IF variant \in {1, 2}
       THEN /\ pc \notin {"load", "validate", "start", "spawn"}
            /\ \A k \in 1..Len(threads) : threads[k].b - threads[k].n < MaxTail
       ELSE \A m \in n..nmax : m % 2 = 0 \/ m % 3 = 0
Runnable == (T <= MaxThreads /\ nmax <= RunLimit) \/ NearEnd

(***************************************************************************)
(* Output fragments.  A [PRIME] line is written by several operator<<      *)
(* calls: its head "[PRIME] n=<n>" and its tail (attribution, newline).    *)
(* w is the worker index printed in the tail, -1 when the tail has none.   *)
(***************************************************************************)
Frag(tag, m, w) == [tag |-> tag, n |-> m, w |-> w]
PrimeLine(m, w) == <<Frag("PRIME", m, w), Frag("TAIL", m, w)>>

\* the n values of the [PRIME] lines in output order, and as a set
RECURSIVE PrintedSeqOf(_)
PrintedSeqOf(o) ==
    IF o = <<>> THEN <<>>
    ELSE IF Head(o).tag = "PRIME" THEN <<Head(o).n>> \o PrintedSeqOf(Tail(o))
    ELSE PrintedSeqOf(Tail(o))
PrintedSeq == PrintedSeqOf(out)
PrintedSet == {out[k].n : k \in {j \in 1..Len(out) : out[j].tag = "PRIME"}}

(***************************************************************************)
(* Input files.                                                            *)
(***************************************************************************)
BigNumber == [k \in 1..20 |-> "9"]
TenNines == [k \in 1..10 |-> "9"]
ThreadsTexts == {Dec(k) : k \in -1..MaxThreads}
                \cup {<<>>, <<"x">>, <<"2", "x">>, <<" ", "2", " ">>, <<"\f", "2">>, TenNines}
LimitTexts == {Dec(k) : k \in (0..MaxLimit) \cup {DivLimit}}
              \cup {<<"a", "b", "c">>, <<"7", ".", "5">>, <<" ", VerticalTab, "6">>, BigNumber}
Lines == {[kind |-> "skip", k |-> "", v |-> <<>>]}
         \cup {[kind |-> "kv", k |-> "threads", v |-> v] : v \in ThreadsTexts}
         \cup {[kind |-> "kv", k |-> "limit", v |-> v] : v \in LimitTexts}
         \cup {[kind |-> "kv", k |-> "other", v |-> <<"1">>]}
Files == UNION {[1..len -> Lines] : len \in 0..MaxLines}

\* no call of is_prime_trial is being followed
TrialIdle == [pc |-> "idle", n |-> <<0>>, d |-> <<0>>, ret |-> FALSE]

\* the state of every executable before main runs
InitLocals ==
    /\ cfg = Config
    /\ pc = "load"
    /\ out = <<>>
    /\ err = <<>>
    /\ exitCode = "none"
    /\ i = 0
    /\ start = nmin
    /\ threads = <<>>
    /\ spawned = 0
    /\ joined = 0
    /\ print_mtx = {}
    /\ buckets = <<>>
    /\ pq = {}
    /\ merged = <<>>
    /\ oi = 0
    /\ n = 2
    /\ primes = <<>>
    /\ hi = 0
    /\ composite = FALSE
    /\ workers = <<>>
    /\ result = FALSE

Init ==
    /\ trial = TrialIdle
    /\ created = 0
    /\ variant \in 1..4
    /\ file \in {[open |-> FALSE, lines |-> <<>>]}
                \cup {[open |-> TRUE, lines |-> f] : f \in Files}
    /\ InitLocals

(***************************************************************************)
(* load_config, called first by every main.                                *)
(***************************************************************************)
\* variant of load_config that treats a file it cannot open as fatal
load_config_fatal ==
    /\ pc = "load"
    /\ IF ~file.open
       THEN /\ err' = Append(err, [tag |-> "WARN"])
            /\ cfg' = Config
            /\ pc' = "aborted"
            /\ exitCode' = "SIGABRT"
            /\ UNCHANGED file
       ELSE LET r == ReadLines(file.lines, Config)
            IN  /\ file' = [file EXCEPT !.lines = <<>>]
                /\ cfg' = r.c
                /\ IF r.thrown # "none"
                   THEN /\ pc' = "aborted"
                        /\ exitCode' = "SIGABRT"
                        /\ err' = Append(err, [tag |-> "terminate", what |-> r.thrown])
                   ELSE /\ pc' = "validate"
                        /\ UNCHANGED <<err, exitCode>>
    /\ UNCHANGED <<variant, trial, created, out, rangeVars, divVars>>

load_config ==
    /\ pc = "load"
    /\ IF ~file.open
       THEN \* if (!in) { cerr << "[WARN] ..."; return c; }
            /\ err' = Append(err, [tag |-> "WARN"])
            /\ cfg' = Config
            /\ pc' = "start"
            /\ UNCHANGED <<file, exitCode>>
       ELSE LET r == ReadLines(file.lines, Config)
            IN  /\ file' = [file EXCEPT !.lines = <<>>]
                /\ cfg' = r.c
                /\ IF r.thrown # "none"
                   THEN \* uncaught std::invalid_argument / std::out_of_range:
                        \* std::terminate, the process is aborted
                        /\ pc' = "aborted"
                        /\ exitCode' = "SIGABRT"
                        /\ err' = Append(err, [tag |-> "terminate", what |-> r.thrown])
                   ELSE /\ pc' = "validate"
                        /\ UNCHANGED <<err, exitCode>>
    /\ UNCHANGED <<variant, trial, created, out, rangeVars, divVars>>

\* the last two statements of load_config and its return
validate ==
    /\ pc = "validate"
    /\ \E hc \in 0..MaxThreads : cfg' = Validate(cfg, hc)
    /\ pc' = "start"
    /\ UNCHANGED <<variant, trial, created, file, out, err, exitCode, rangeVars, divVars>>

\* cout << "[START] " << now_str(); then the locals of main
Start ==
    /\ pc = "start"
    /\ out' = Append(out, Frag("START", 0, -1))
    /\ buckets' = IF variant = 2 THEN [k \in 1..T |-> <<>>] ELSE buckets
    /\ pc' = IF variant \in {1, 2} THEN "spawn" ELSE "loop"
    /\ UNCHANGED <<cfgVars, trial, created, err, exitCode, i, start, threads, spawned, joined,
                   print_mtx, pq, merged, oi, divVars>>

(***************************************************************************)
(* Variants 1 and 2: the spawn loop, the range workers, the join loop.     *)
(***************************************************************************)
\* variant of SpawnStep without  if (len <= 0) break;
SpawnStepNoBreak ==
    /\ pc = "spawn"
    /\ LET len == RangeLen(nmax, T, i)
           a == start
           b == a + len - 1
       IN  IF i < T
           THEN /\ threads' = Append(threads,
                        [idx |-> i, a |-> a, b |-> b, n |-> a, pc |-> "scan"])
                /\ start' = b + 1
                /\ spawned' = IF variant = 2 THEN spawned + 1 ELSE spawned
                /\ i' = i + 1
                /\ pc' = pc
           ELSE /\ pc' = "join"
                /\ UNCHANGED <<threads, start, spawned, i>>
    /\ UNCHANGED <<cfgVars, trial, created, out, err, exitCode, joined, print_mtx, buckets, pq,
                   merged, oi, divVars>>

\* one iteration of  for (int i = 0; i < T; ++i) { len; if (len <= 0) break; ... }
SpawnStep ==
    /\ pc = "spawn"
    /\ LET len == RangeLen(nmax, T, i)
           a == start
           b == a + len - 1
       IN  IF i < T /\ len > 0
           THEN /\ threads' = Append(threads,
                        [idx |-> i, a |-> a, b |-> b, n |-> a, pc |-> "scan"])
                /\ start' = b + 1
                /\ spawned' = IF variant = 2 THEN spawned + 1 ELSE spawned
                /\ i' = i + 1
                /\ pc' = pc
           ELSE /\ pc' = "join"
                /\ UNCHANGED <<threads, start, spawned, i>>
    /\ UNCHANGED <<cfgVars, trial, created, out, err, exitCode, joined, print_mtx, buckets, pq,
                   merged, oi, divVars>>

\* variant 1 worker: loop test and is_prime_trial(n), outside the lock
Scan1(k) ==
    /\ variant = 1
    /\ Runnable
    /\ threads[k].pc = "scan"
    /\ LET w == threads[k]
       IN  threads' = [threads EXCEPT ![k] =
               IF w.n > w.b THEN [w EXCEPT !.pc = "done"]
               ELSE IF is_prime_trial(w.n) THEN [w EXCEPT !.pc = "lock"]
               ELSE [w EXCEPT !.n = w.n + 1]]
    /\ UNCHANGED <<cfgVars, trial, created, pc, out, err, exitCode, i, start, spawned, joined,
                   print_mtx, buckets, pq, merged, oi, divVars>>

\* variant of MayLock that hands the print section out in worker order
MayLockInOrder(k) ==
    /\ print_mtx = {}
    /\ \A j \in 1..Len(threads) :
          threads[j].idx < threads[k].idx => threads[j].pc = "done"
\* variant of MayLock for a print section that is not guarded at all
MayLockAlways(k) == TRUE
\* variant of MayLock for a main thread that takes print_mtx before its join
\* loop and keeps it until the loop has ended
MayLockUnlessJoining(k) == print_mtx = {} /\ pc # "join"
\* lock_guard<mutex> lk(print_mtx): blocks until the mutex is free
MayLock(k) == print_mtx = {}
Acquire(k) ==
    /\ variant = 1
    /\ threads[k].pc = "lock"
    /\ MayLock(k)
    /\ print_mtx' = print_mtx \cup {threads[k].idx}
    /\ threads' = [threads EXCEPT ![k].pc = "head"]
    /\ UNCHANGED <<cfgVars, trial, created, pc, out, err, exitCode, i, start, spawned, joined,
                   buckets, pq, merged, oi, divVars>>

\* cout << "[PRIME] n=" << n
PrintHead(k) ==
    /\ variant = 1
    /\ threads[k].pc = "head"
    /\ out' = Append(out, Frag("PRIME", threads[k].n, threads[k].idx))
    /\ threads' = [threads EXCEPT ![k].pc = "tail"]
    /\ UNCHANGED <<cfgVars, trial, created, pc, err, exitCode, i, start, spawned, joined,
                   print_mtx, buckets, pq, merged, oi, divVars>>

\* variant of PrintTail whose lock outlives the if block (a lock object that is
\* declared outside the loop and never unlocked)
PrintTailKeepLock(k) ==
    /\ variant = 1
    /\ threads[k].pc = "tail"
    /\ out' = Append(out, Frag("TAIL", threads[k].n, threads[k].idx))
    /\ threads' = [threads EXCEPT ![k].pc = "scan", ![k].n = threads[k].n + 1]
    /\ UNCHANGED <<cfgVars, trial, created, pc, err, exitCode, i, start, spawned, joined,
                   print_mtx, buckets, pq, merged, oi, divVars>>

\* << " worker=" << idx << " tid=" ... << "\n"; end of scope unlocks; ++n
PrintTail(k) ==
    /\ variant = 1
    /\ threads[k].pc = "tail"
    /\ out' = Append(out, Frag("TAIL", threads[k].n, threads[k].idx))
    /\ print_mtx' = print_mtx \ {threads[k].idx}
    /\ threads' = [threads EXCEPT ![k].pc = "scan", ![k].n = threads[k].n + 1]
    /\ UNCHANGED <<cfgVars, trial, created, pc, err, exitCode, i, start, spawned, joined,
                   buckets, pq, merged, oi, divVars>>

\* variant of Scan2 that inserts at the front of the bucket
Scan2Prepend(k) ==
    /\ variant = 2
    /\ Runnable
    /\ threads[k].pc = "scan"
    /\ LET w == threads[k]
       IN  IF w.n > w.b
           THEN /\ threads' = [threads EXCEPT ![k].pc = "done"]
                /\ UNCHANGED buckets
           ELSE /\ threads' = [threads EXCEPT ![k].n = w.n + 1]
                /\ buckets' = IF is_prime_trial(w.n)
                              THEN [buckets EXCEPT ![w.idx + 1] = <<w.n>> \o @]
                              ELSE buckets
    /\ UNCHANGED <<cfgVars, trial, created, pc, out, err, exitCode, i, start, spawned, joined,
                   print_mtx, pq, merged, oi, divVars>>

\* variant of Scan2 in which every worker appends to one shared vector
Scan2SharedBucket(k) ==
    /\ variant = 2
    /\ Runnable
    /\ threads[k].pc = "scan"
    /\ LET w == threads[k]
       IN  IF w.n > w.b
           THEN /\ threads' = [threads EXCEPT ![k].pc = "done"]
                /\ UNCHANGED buckets
           ELSE /\ threads' = [threads EXCEPT ![k].n = w.n + 1]
                /\ buckets' = IF is_prime_trial(w.n)
                              THEN [buckets EXCEPT ![1] = Append(@, w.n)]
                              ELSE buckets
    /\ UNCHANGED <<cfgVars, trial, created, pc, out, err, exitCode, i, start, spawned, joined,
                   print_mtx, pq, merged, oi, divVars>>

\* variant 2 worker: if (is_prime_trial(n)) out.push_back(n), out = buckets[idx]
Scan2(k) ==
    /\ variant = 2
    /\ Runnable
    /\ threads[k].pc = "scan"
    /\ LET w == threads[k]
       IN  IF w.n > w.b
           THEN /\ threads' = [threads EXCEPT ![k].pc = "done"]
                /\ UNCHANGED buckets
           ELSE /\ threads' = [threads EXCEPT ![k].n = w.n + 1]
                /\ buckets' = IF is_prime_trial(w.n)
                              THEN [buckets EXCEPT ![w.idx + 1] = Append(@, w.n)]
                              ELSE buckets
    /\ UNCHANGED <<cfgVars, trial, created, pc, out, err, exitCode, i, start, spawned, joined,
                   print_mtx, pq, merged, oi, divVars>>

\* variant of Join that does not wait for the thread it joins
JoinNoWait ==
    /\ pc = "join"
    /\ IF joined < Len(threads)
       THEN /\ joined' = joined + 1
            /\ pc' = pc
       ELSE /\ pc' = IF variant = 1 THEN "end" ELSE "seed"
            /\ UNCHANGED joined
    /\ UNCHANGED <<cfgVars, trial, created, out, err, exitCode, i, start, threads, spawned,
                   print_mtx, buckets, pq, merged, oi, divVars>>

\* for (auto& th : threads) th.join();
Join ==
    /\ pc = "join"
    /\ IF joined < Len(threads)
       THEN /\ threads[joined + 1].pc = "done"
            /\ joined' = joined + 1
            /\ pc' = pc
       ELSE /\ pc' = IF variant = 1 THEN "end" ELSE "seed"
            /\ UNCHANGED joined
    /\ UNCHANGED <<cfgVars, trial, created, out, err, exitCode, i, start, threads, spawned,
                   print_mtx, buckets, pq, merged, oi, divVars>>

(***************************************************************************)
(* Variant 2: k-way merge of the buckets and the delayed output.           *)
(***************************************************************************)
Node(v, bi, pos) == [v |-> v, bi |-> bi, pos |-> pos]

\* for (i < spawned) if (!buckets[i].empty()) pq.push(Node{buckets[i][0], i, 0});
Seed ==
    /\ pc = "seed"
    /\ pq' = {Node(buckets[b + 1][1], b, 0) :
                b \in {c \in 0..(spawned - 1) : buckets[c + 1] # <<>>}}
    /\ pc' = "merge"
    /\ UNCHANGED <<cfgVars, trial, created, out, err, exitCode, i, start, threads, spawned, joined,
                   print_mtx, buckets, merged, oi, divVars>>

\* variants of Top: a max-heap, and a queue that pops in any order
TopMax(q) == {x \in q : \A y \in q : x.v >= y.v}
TopAny(q) == q
\* Cmp orders the heap by a.v > b.v: top() is a node of least v
Top(q) == {x \in q : \A y \in q : x.v <= y.v}

\* variant of MergeStep whose bound test is off by one: the last element of a
\* bucket is never pushed
MergeStepDropLast ==
    /\ pc = "merge"
    /\ IF pq # {}
       THEN \E cur \in Top(pq) :
              LET next == cur.pos + 1
                  rest == pq \ {cur}
              IN  /\ merged' = Append(merged, <<cur.v, cur.bi>>)
                  /\ pq' = IF next + 1 < Len(buckets[cur.bi + 1])
                           THEN rest \cup {Node(buckets[cur.bi + 1][next + 1], cur.bi, next)}
                           ELSE rest
                  /\ pc' = pc
       ELSE /\ pc' = "results"
            /\ UNCHANGED <<pq, merged>>
    /\ UNCHANGED <<cfgVars, trial, created, out, err, exitCode, i, start, threads, spawned, joined,
                   print_mtx, buckets, oi, divVars>>

\* variant of MergeStep that records the position in the bucket where the
\* bucket index belongs: emplace_back(cur.v, cur.pos)
MergeStepPosAsIndex ==
    /\ pc = "merge"
    /\ IF pq # {}
       THEN \E cur \in Top(pq) :
              LET next == cur.pos + 1
                  rest == pq \ {cur}
              IN  /\ merged' = Append(merged, <<cur.v, cur.pos>>)
                  /\ pq' = IF next < Len(buckets[cur.bi + 1])
                           THEN rest \cup {Node(buckets[cur.bi + 1][next + 1], cur.bi, next)}
                           ELSE rest
                  /\ pc' = pc
       ELSE /\ pc' = "results"
            /\ UNCHANGED <<pq, merged>>
    /\ UNCHANGED <<cfgVars, trial, created, out, err, exitCode, i, start, threads, spawned, joined,
                   print_mtx, buckets, oi, divVars>>

\* one iteration of  while (!pq.empty()) { cur = top; pop; emplace_back; push next }
MergeStep ==
    /\ pc = "merge"
    /\ IF pq # {}
       THEN \E cur \in Top(pq) :
              LET next == cur.pos + 1
                  rest == pq \ {cur}
              IN  /\ merged' = Append(merged, <<cur.v, cur.bi>>)
                  /\ pq' = IF next < Len(buckets[cur.bi + 1])
                           THEN rest \cup {Node(buckets[cur.bi + 1][next + 1], cur.bi, next)}
                           ELSE rest
                  /\ pc' = pc
       ELSE /\ pc' = "results"
            /\ UNCHANGED <<pq, merged>>
    /\ UNCHANGED <<cfgVars, trial, created, out, err, exitCode, i, start, threads, spawned, joined,
                   print_mtx, buckets, oi, divVars>>

\* cout << "[RESULTS] total=" << size  (merged in variant 2, primes in variant 4)
Results ==
    /\ pc = "results"
    /\ out' = Append(out, Frag("RESULTS",
                  IF variant = 2 THEN Len(merged) ELSE Len(primes), -1))
    /\ oi' = 0
    /\ pc' = "print"
    /\ UNCHANGED <<cfgVars, trial, created, err, exitCode, i, start, threads, spawned, joined,
                   print_mtx, buckets, pq, merged, divVars>>

\* for (auto& p : merged) cout << "[PRIME] n=" << p.first << " found_by_thread=" << p.second
PrintMerged ==
    /\ pc = "print"
    /\ variant = 2
    /\ IF oi < Len(merged)
       THEN /\ out' = out \o PrimeLine(merged[oi + 1][1], merged[oi + 1][2])
            /\ oi' = oi + 1
            /\ pc' = pc
       ELSE /\ pc' = "summary"
            /\ UNCHANGED <<out, oi>>
    /\ UNCHANGED <<cfgVars, trial, created, err, exitCode, i, start, threads, spawned, joined,
                   print_mtx, buckets, pq, merged, divVars>>

\* cerr << "[SUMMARY] threads_spawned=" ...; one line per spawned thread
Summary ==
    /\ pc = "summary"
    /\ err' = err \o <<[tag |-> "SUMMARY", spawned |-> spawned]>>
                  \o [b \in 1..spawned |->
                        [tag |-> "SUMMARY", thread |-> b - 1, primes |-> Len(buckets[b])]]
    /\ pc' = "end"
    /\ UNCHANGED <<cfgVars, trial, created, out, exitCode, rangeVars, divVars>>

\* cout << "[END] " << now_str()
End ==
    /\ pc = "end"
    /\ out' = Append(out, Frag("END", 0, -1))
    /\ pc' = "return"
    /\ UNCHANGED <<cfgVars, trial, created, err, exitCode, rangeVars, divVars>>

\* return 0;
Return ==
    /\ pc = "return"
    /\ exitCode' = "0"
    /\ pc' = "exited"
    /\ UNCHANGED <<cfgVars, trial, created, out, err, rangeVars, divVars>>

(***************************************************************************)
(* Variants 3 and 4: the sequential candidate loop and is_prime_parallel.  *)
(***************************************************************************)
\* for (long long n = 2; n <= nmax; ++n): the loop test
LoopHead ==
    /\ pc = "loop"
    /\ Runnable
    /\ pc' = IF n <= nmax THEN "par_call"
             ELSE IF variant = 3 THEN "end" ELSE "sort"
    /\ UNCHANGED <<cfgVars, trial, created, out, err, exitCode, rangeVars, divVars>>

\* variant of ParCall without  if (hi < 5) return true;
ParCallNoSqrtCheck ==
    /\ pc = "par_call"
    /\ IF n < 2 \/ n % 2 = 0 \/ n % 3 = 0
       THEN /\ result' = IF n < 2 THEN FALSE
                         ELSE IF n % 2 = 0 THEN n = 2
                         ELSE n = 3
            /\ pc' = "par_ret"
            /\ UNCHANGED <<hi, composite, workers>>
       ELSE /\ hi' = FloorSqrt(n)
            /\ composite' = FALSE
            /\ workers' = <<>>
            /\ pc' = "par_spawn"
            /\ UNCHANGED result
    /\ UNCHANGED <<cfgVars, trial, created, out, err, exitCode, rangeVars, n, primes>>

\* is_prime_parallel(n, T): the pre-checks; no thread exists yet
ParCall ==
    /\ pc = "par_call"
    /\ IF n < 2 \/ n % 2 = 0 \/ n % 3 = 0 \/ FloorSqrt(n) < 5
       THEN /\ result' = IF n < 2 THEN FALSE
                         ELSE IF n % 2 = 0 THEN n = 2
                         ELSE IF n % 3 = 0 THEN n = 3
                         ELSE TRUE
            /\ pc' = "par_ret"
            /\ UNCHANGED <<hi, composite, workers>>
       ELSE /\ hi' = FloorSqrt(n)
            /\ composite' = FALSE
            /\ workers' = <<>>
            /\ pc' = "par_spawn"
            /\ UNCHANGED result
    /\ UNCHANGED <<cfgVars, trial, created, out, err, exitCode, rangeVars, n, primes>>

\* variant of FirstDivisor that starts the first share at 7
FirstDivisorLate(idx) == 7 + 2 * idx
\* long long start = 5 + 2LL * idx;   d += 2LL * T
FirstDivisor(idx) == 5 + 2 * idx
\* variant of Stride that steps over one odd number too many
StrideWide == 2 * T + 2
Stride == 2 * T

\* variant of ParSpawn whose loop runs once too often (i <= T)
ParSpawnOneMore ==
    /\ pc = "par_spawn"
    /\ IF Len(workers) <= T
       THEN /\ workers' = Append(workers,
                   [idx |-> Len(workers), d |-> FirstDivisor(Len(workers)),
                    pc |-> "check", tested |-> <<>>, late |-> 0,
                    stale |-> FALSE, born |-> composite])
            /\ created' = created + 1
            /\ pc' = pc
       ELSE /\ pc' = "par_join"
            /\ UNCHANGED <<workers, created>>
    /\ UNCHANGED <<cfgVars, trial, out, err, exitCode, rangeVars, n, primes, hi,
                   composite, result>>

\* for (int i = 0; i < T; ++i) workers.emplace_back(worker, i);
\* a worker is its index, its d and position, and the history of what it did:
\* the divisors it tried, how many of them after composite was stored, whether
\* a load of it returned a value older than the last store, and what
\* composite was when it was created
ParSpawn ==
    /\ pc = "par_spawn"
    /\ IF Len(workers) < T
       THEN /\ workers' = Append(workers,
                   [idx |-> Len(workers), d |-> FirstDivisor(Len(workers)),
                    pc |-> "check", tested |-> <<>>, late |-> 0,
                    stale |-> FALSE, born |-> composite])
            /\ created' = created + 1
            /\ pc' = pc
       ELSE /\ pc' = "par_join"
            /\ UNCHANGED <<workers, created>>
    /\ UNCHANGED <<cfgVars, trial, out, err, exitCode, rangeVars, n, primes, hi,
                   composite, result>>

\* composite.load(memory_order_relaxed) in a worker: the initial false is always
\* visible; a true stored by another worker may or may not be visible yet
Loads == IF composite THEN {TRUE, FALSE} ELSE {FALSE}

\* variant of DwCheck that loads composite only before the first divisor
DwCheckOnce(k) ==
    /\ pc \in {"par_spawn", "par_join"}
    /\ workers[k].pc = "check"
    /\ IF workers[k].d <= hi
       THEN IF workers[k].d = FirstDivisor(workers[k].idx)
            THEN \E seen \in Loads :
                   workers' = [workers EXCEPT ![k].pc = IF seen THEN "done" ELSE "body",
                                              ![k].stale = @ \/ (composite /\ ~seen)]
            ELSE workers' = [workers EXCEPT ![k].pc = "body"]
       ELSE workers' = [workers EXCEPT ![k].pc = "done"]
    /\ UNCHANGED <<cfgVars, trial, created, pc, out, err, exitCode, rangeVars, n, primes, hi,
                   composite, result>>

\* the loop condition  d <= hi && !composite.load(memory_order_relaxed)
DwCheck(k) ==
    /\ pc \in {"par_spawn", "par_join"}
    /\ workers[k].pc = "check"
    /\ IF workers[k].d <= hi
       THEN \E seen \in Loads :
              workers' = [workers EXCEPT ![k].pc = IF seen THEN "done" ELSE "body",
                                         ![k].stale = @ \/ (composite /\ ~seen)]
       ELSE workers' = [workers EXCEPT ![k].pc = "done"]
    /\ UNCHANGED <<cfgVars, trial, created, pc, out, err, exitCode, rangeVars, n, primes, hi,
                   composite, result>>

\* the record of one evaluation of n % d by worker w: the divisor, and whether
\* composite had already been stored when it was evaluated
Divided(w) == [w EXCEPT !.tested = Append(@, w.d),
                        !.late = @ + (IF composite THEN 1 ELSE 0)]

\* variant of DwBody that stores the outcome of every test in composite
DwBodyStoreEach(k) ==
    /\ pc \in {"par_spawn", "par_join"}
    /\ workers[k].pc = "body"
    /\ LET w == workers[k]
           v == IF w.d % 3 = 0 THEN w ELSE Divided(w)
       IN  IF w.d % 3 # 0 /\ n % w.d = 0
           THEN /\ composite' = TRUE
                /\ workers' = [workers EXCEPT ![k] = [v EXCEPT !.pc = "done"]]
           ELSE /\ workers' = [workers EXCEPT ![k] =
                                 [v EXCEPT !.pc = "check", !.d = w.d + Stride]]
                /\ composite' = IF w.d % 3 = 0 THEN composite ELSE FALSE
    /\ UNCHANGED <<cfgVars, trial, created, pc, out, err, exitCode, rangeVars, n, primes, hi, result>>

\* the loop body: skip multiples of 3, test n % d, store and break, or d += 2T
DwBody(k) ==
    /\ pc \in {"par_spawn", "par_join"}
    /\ workers[k].pc = "body"
    /\ LET w == workers[k]
           v == IF w.d % 3 = 0 THEN w ELSE Divided(w)
       IN  IF w.d % 3 # 0 /\ n % w.d = 0
           THEN /\ composite' = TRUE
                /\ workers' = [workers EXCEPT ![k] = [v EXCEPT !.pc = "done"]]
           ELSE /\ workers' = [workers EXCEPT ![k] =
                                 [v EXCEPT !.pc = "check", !.d = w.d + Stride]]
                /\ UNCHANGED composite
    /\ UNCHANGED <<cfgVars, trial, created, pc, out, err, exitCode, rangeVars, n, primes, hi, result>>

\* variant of ParJoin that returns as soon as composite is set, without
\* waiting for the workers that are still running
ParJoinEarly ==
    /\ pc = "par_join"
    /\ IF joined < Len(workers) /\ ~composite
       THEN /\ workers[joined + 1].pc = "done"
            /\ joined' = joined + 1
            /\ pc' = pc
            /\ UNCHANGED <<result, workers>>
       ELSE /\ result' = ~composite
            /\ workers' = <<>>
            /\ joined' = 0
            /\ pc' = "par_ret"
    /\ UNCHANGED <<cfgVars, trial, created, out, err, exitCode, i, start, threads, spawned,
                   print_mtx, buckets, pq, merged, oi, n, primes, hi, composite>>

\* variant of ParJoin whose last load of composite may miss the store of a
\* worker it has joined (a join that does not synchronise with the thread)
ParJoinRelaxedLoad ==
    /\ pc = "par_join"
    /\ IF joined < Len(workers)
       THEN /\ workers[joined + 1].pc = "done"
            /\ joined' = joined + 1
            /\ pc' = pc
            /\ UNCHANGED <<result, workers>>
       ELSE /\ \E seen \in Loads : result' = ~seen
            /\ workers' = <<>>
            /\ joined' = 0
            /\ pc' = "par_ret"
    /\ UNCHANGED <<cfgVars, trial, created, out, err, exitCode, i, start, threads, spawned,
                   print_mtx, buckets, pq, merged, oi, n, primes, hi, composite>>

\* for (auto& th : workers) th.join();  return !composite.load(...)
ParJoin ==
    /\ pc = "par_join"
    /\ IF joined < Len(workers)
       THEN /\ workers[joined + 1].pc = "done"
            /\ joined' = joined + 1
            /\ pc' = pc
            /\ UNCHANGED <<result, workers>>
       ELSE /\ result' = ~composite
            /\ workers' = <<>>
            /\ joined' = 0
            /\ pc' = "par_ret"
    /\ UNCHANGED <<cfgVars, trial, created, out, err, exitCode, i, start, threads, spawned,
                   print_mtx, buckets, pq, merged, oi, n, primes, hi, composite>>

\* variant of LoopNext in which variant 4 kept variant 3's immediate print
LoopNextImmediate ==
    /\ pc = "par_ret"
    /\ out' = IF result THEN out \o PrimeLine(n, -1) ELSE out
    /\ primes' = IF variant = 4 /\ result THEN Append(primes, n) ELSE primes
    /\ n' = n + 1
    /\ pc' = "loop"
    /\ UNCHANGED <<cfgVars, trial, created, err, exitCode, rangeVars, hi, composite, workers, result>>

\* variant of LoopNext that collects at the front of the vector
LoopNextPushFront ==
    /\ pc = "par_ret"
    /\ out' = IF variant = 3 /\ result THEN out \o PrimeLine(n, -1) ELSE out
    /\ primes' = IF variant = 4 /\ result THEN <<n>> \o primes ELSE primes
    /\ n' = n + 1
    /\ pc' = "loop"
    /\ UNCHANGED <<cfgVars, trial, created, err, exitCode, rangeVars, hi, composite, workers, result>>

\* variant of LoopNext in which ++n comes before the line is written
LoopNextIncrementFirst ==
    /\ pc = "par_ret"
    /\ out' = IF variant = 3 /\ result THEN out \o PrimeLine(n + 1, -1) ELSE out
    /\ primes' = IF variant = 4 /\ result THEN Append(primes, n) ELSE primes
    /\ n' = n + 1
    /\ pc' = "loop"
    /\ UNCHANGED <<cfgVars, trial, created, err, exitCode, rangeVars, hi, composite, workers, result>>

\* the body of the candidate loop after the call returned, and ++n
LoopNext ==
    /\ pc = "par_ret"
    /\ out' = IF variant = 3 /\ result THEN out \o PrimeLine(n, -1) ELSE out
    /\ primes' = IF variant = 4 /\ result THEN Append(primes, n) ELSE primes
    /\ n' = n + 1
    /\ pc' = "loop"
    /\ UNCHANGED <<cfgVars, trial, created, err, exitCode, rangeVars, hi, composite, workers, result>>

\* sort(primes.begin(), primes.end()): the elements rearranged in ascending
\* order by operator<
sort(s) == SortSeq(s, LAMBDA x, y : x < y)

SortPrimes ==
    /\ pc = "sort"
    /\ primes' = sort(primes)
    /\ pc' = "results"
    /\ UNCHANGED <<cfgVars, trial, created, out, err, exitCode, rangeVars, n, hi, composite,
                   workers, result>>

\* for (auto n : primes) cout << "[PRIME] n=" << n << "\n";
PrintSorted ==
    /\ pc = "print"
    /\ variant = 4
    /\ IF oi < Len(primes)
       THEN /\ out' = out \o PrimeLine(primes[oi + 1], -1)
            /\ oi' = oi + 1
            /\ pc' = pc
       ELSE /\ pc' = "end"
            /\ UNCHANGED <<out, oi>>
    /\ UNCHANGED <<cfgVars, trial, created, err, exitCode, i, start, threads, spawned, joined,
                   print_mtx, buckets, pq, merged, divVars>>

(***************************************************************************)
(* is_prime_trial(n) statement by statement, in long long arithmetic.      *)
(***************************************************************************)
TrialReturn(v) == [trial EXCEPT !.pc = "ret", !.ret = v]

\* if (n < 2) ...; if (n % 2 == 0) ...; if (n % 3 == 0) ...; long long d = 5
TrialCall ==
    /\ trial.pc = "call"
    /\ trial' = IF LLLess(trial.n, LLOf(2)) THEN TrialReturn(FALSE)
                ELSE IF LLMod(trial.n, LLOf(2)) = LLOf(0)
                     THEN TrialReturn(trial.n = LLOf(2))
                ELSE IF LLMod(trial.n, LLOf(3)) = LLOf(0)
                     THEN TrialReturn(trial.n = LLOf(3))
                ELSE [trial EXCEPT !.d = LLOf(5), !.pc = "guard"]
    /\ UNCHANGED <<cfgVars, created, pc, out, err, exitCode, rangeVars, divVars>>

\* the loop condition d * d <= n.  d * d is a signed multiplication: a product
\* above LLONG_MAX is undefined behaviour, after which the call may return
\* either value or keep iterating (the wrapped product is negative here)
TrialGuard ==
    /\ trial.pc = "guard"
    /\ LET sq == LLMul(trial.d, trial.d)
       IN  IF LLOverflows(sq)
           THEN \/ \E v \in BOOLEAN : trial' = TrialReturn(v)
                \/ trial' = [trial EXCEPT !.pc = "spin"]
           ELSE trial' = IF ~LLLess(trial.n, sq)
                         THEN [trial EXCEPT !.pc = "body"]
                         ELSE TrialReturn(TRUE)
    /\ UNCHANGED <<cfgVars, created, pc, out, err, exitCode, rangeVars, divVars>>

\* if (n % d == 0 || n % (d + 2) == 0) return false;  d += 6
TrialBody ==
    /\ trial.pc = "body"
    /\ trial' = IF \/ LLMod(trial.n, trial.d) = LLOf(0)
                   \/ LLMod(trial.n, LLAdd(trial.d, LLOf(2))) = LLOf(0)
                THEN TrialReturn(FALSE)
                ELSE [trial EXCEPT !.d = LLAdd(trial.d, LLOf(6)), !.pc = "guard"]
    /\ UNCHANGED <<cfgVars, created, pc, out, err, exitCode, rangeVars, divVars>>

(***************************************************************************)
(* The four executables.                                                   *)
(***************************************************************************)
Next ==
    \/ load_config
    \/ validate
    \/ Start
    \/ SpawnStep
    \/ \E k \in 1..Len(threads) : Scan1(k)
    \/ \E k \in 1..Len(threads) : Acquire(k)
    \/ \E k \in 1..Len(threads) : PrintHead(k)
    \/ \E k \in 1..Len(threads) : PrintTail(k)
    \/ \E k \in 1..Len(threads) : Scan2(k)
    \/ Join
    \/ Seed
    \/ MergeStep
    \/ Results
    \/ PrintMerged
    \/ Summary
    \/ LoopHead
    \/ ParCall
    \/ ParSpawn
    \/ \E k \in 1..Len(workers) : DwCheck(k)
    \/ \E k \in 1..Len(workers) : DwBody(k)
    \/ ParJoin
    \/ LoopNext
    \/ SortPrimes
    \/ PrintSorted
    \/ End
    \/ Return

Spec == Init /\ [][Next]_vars

(***************************************************************************)
(* The four executables on the well-formed configurations (a threads line  *)
(* and a limit line with values in range), under a scheduler that does not *)
(* stop the process: as long as some thread can take a step, one is taken. *)
(***************************************************************************)
KV(k, m) == [kind |-> "kv", k |-> k, v |-> Dec(m)]
InitFair ==
    /\ trial = TrialIdle
    /\ created = 0
    /\ variant \in 1..4
    /\ file \in {[open |-> TRUE, lines |-> <<KV("threads", t), KV("limit", l)>>] :
                   t \in 1..MaxThreads, l \in (2..MaxLimit) \cup {DivLimit}}
    /\ InitLocals
SpecFair == InitFair /\ [][Next]_vars /\ WF_vars(Next)

(***************************************************************************)
(* The range partition on its own: variants 1 and 2 up to the end of the   *)
(* spawn loop, for larger limits and worker counts.                        *)
(***************************************************************************)
InitPartition ==
    /\ trial = TrialIdle
    /\ created = 0
    /\ variant \in {1, 2}
    /\ file \in {[open |-> TRUE, lines |-> <<KV("threads", t), KV("limit", l)>>] :
                   t \in 1..MaxPartThreads, l \in 2..MaxPartLimit}
    /\ InitLocals
NextPartition == load_config \/ validate \/ Start \/ SpawnStep
SpecPartition == InitPartition /\ [][NextPartition]_vars

(***************************************************************************)
(* One call is_prime_parallel(n, T) on its own, for every n and T in the   *)
(* bounds, under every interleaving of its workers.                        *)
(***************************************************************************)
InitPar ==
    /\ variant \in {3, 4}
    /\ file = [open |-> TRUE, lines |-> <<>>]
    /\ cfg \in {[threads |-> t, limit |-> Max(2, MaxN)] : t \in 1..MaxParThreads}
    /\ pc = "par_call"
    /\ out = <<Frag("START", 0, -1)>>
    /\ err = <<>>
    /\ exitCode = "none"
    /\ i = 0
    /\ start = nmin
    /\ threads = <<>>
    /\ spawned = 0
    /\ joined = 0
    /\ print_mtx = {}
    /\ buckets = <<>>
    /\ pq = {}
    /\ merged = <<>>
    /\ oi = 0
    /\ n \in 0..MaxN
    /\ primes = <<>>
    /\ hi = 0
    /\ composite = FALSE
    /\ workers = <<>>
    /\ result = FALSE
    /\ trial = TrialIdle
    /\ created = 0
NextPar ==
    \/ ParCall
    \/ ParSpawn
    \/ \E k \in 1..Len(workers) : DwCheck(k)
    \/ \E k \in 1..Len(workers) : DwBody(k)
    \/ ParJoin
SpecPar == InitPar /\ [][NextPar]_vars


(***************************************************************************)
(* One call is_prime_trial(n) on its own: every n up to MaxTrialN from the *)
(* first statement; LLONG_MAX = 7 * 7 * 73 * 127 * 337 * 92737 * 649657    *)
(* from the first statement; and the prime 2^63 - 25, the largest long     *)
(* long prime, from the last iterations of its loop (as no d divides it,   *)
(* the loop reaches every d = 5, 11, 17, ... with d * d <= n, the last of  *)
(* them 3037000499; the 506 million iterations before are not replayed).   *)
(***************************************************************************)
WidePrime == <<9, 2, 2, 3, 3, 7, 2, 0, 3, 6, 8, 5, 4, 7, 7, 5, 7, 8, 3>>
WideComposite == [k \in 1..Len(LLONG_MAX) |-> DigitVal(LLONG_MAX[k])]
\* floor(sqrt(LLONG_MAX)), which is 5 modulo 6
LastSafeD == <<3, 0, 3, 7, 0, 0, 0, 4, 9, 9>>
TrialInputs ==
    {[pc |-> "call", n |-> LLOf(m), d |-> <<0>>, ret |-> FALSE] : m \in 0..MaxTrialN}
    \cup {[pc |-> "call", n |-> WideComposite, d |-> <<0>>, ret |-> FALSE]}
    \cup {[pc |-> "guard", n |-> WidePrime, d |-> LLSub(LastSafeD, LLOf(6 * j)),
           ret |-> FALSE] : j \in 0..WideBack}
InitTrial ==
    /\ variant \in {1, 2}
    /\ file = [open |-> FALSE, lines |-> <<>>]
    /\ InitLocals
    /\ trial \in TrialInputs
    /\ created = 0
NextTrial == TrialCall \/ TrialGuard \/ TrialBody
SpecTrial == InitTrial /\ [][NextTrial]_vars

(***************************************************************************)
(* The k-way merge of variant 2 on its own: from the statement after the   *)
(* join loop, for every choice of buckets that are each ascending, empty   *)
(* ones and values shared between buckets included.  The main thread is    *)
(* the only thread left; it keeps running.                                 *)
(***************************************************************************)
\* the elements of a finite set of numbers in ascending order
RECURSIVE SeqOfSet(_)
SeqOfSet(S) ==
    IF S = {} THEN <<>>
    ELSE LET m == CHOOSE x \in S : \A y \in S : x <= y
         IN  <<m>> \o SeqOfSet(S \ {m})
\* the contents of t buckets: which value lies in which bucket
MergeInputs(t) ==
    {S \in SUBSET ((1..t) \X (1..MaxMergeVal)) : Cardinality(S) <= MaxMergeTotal}
InitMerge ==
    /\ trial = TrialIdle
    /\ created = 0
    /\ variant = 2
    /\ file = [open |-> TRUE, lines |-> <<>>]
    /\ cfg \in {[threads |-> t, limit |-> Max(2, MaxMergeVal)] : t \in 1..MaxMergeBuckets}
    /\ pc = "seed"
    /\ out = <<Frag("START", 0, -1)>>
    /\ err = <<>>
    /\ exitCode = "none"
    /\ i = cfg.threads
    /\ start = nmin
    /\ threads = <<>>
    /\ spawned = cfg.threads
    /\ joined = 0
    /\ print_mtx = {}
    /\ buckets \in {[b \in 1..cfg.threads |-> SeqOfSet({v \in 1..MaxMergeVal : <<b, v>> \in S})] :
                      S \in MergeInputs(cfg.threads)}
    /\ pq = {}
    /\ merged = <<>>
    /\ oi = 0
    /\ n = 2
    /\ primes = <<>>
    /\ hi = 0
    /\ composite = FALSE
    /\ workers = <<>>
    /\ result = FALSE
NextMerge == Seed \/ MergeStep
SpecMerge == InitMerge /\ [][NextMerge]_vars /\ WF_vars(NextMerge)

(***************************************************************************)
(* The run with the default configuration, the one main uses when          *)
(* config.txt cannot be opened: T = 4, limit = 100000.  It is followed     *)
(* from the entry of main to the launch of the workers, and again from the *)
(* end of the scan to the exit: in variants 1 and 2 from the state in      *)
(* which each of the four workers has MaxTail candidates of its sub-range  *)
(* left, in variants 3 and 4 from the candidate after the last one for     *)
(* which threads are created.  The scan steps in between are not replayed. *)
(* The states taken up are the ones these steps lead to: every prime below *)
(* the position of a worker has been found by it, and in variant 1 the     *)
(* lines are in the order of a run in which worker 0 reached its position  *)
(* first, then worker 1, and so on.                                        *)
(***************************************************************************)
(* Variant 3 as a function of its configuration: is_prime_parallel with    *)
(* its workers run one after the other, and the candidate loop with its    *)
(* immediate print.                                                        *)
(***************************************************************************)
\* worker idx of is_prime_parallel(m, t) run from divisor d with hi = h while
\* composite is c: the value of composite when it leaves its loop
RECURSIVE worker(_, _, _, _, _)
worker(m, t, h, d, c) ==
    IF ~(d <= h /\ ~c) THEN c
    ELSE IF d % 3 = 0 THEN worker(m, t, h, d + 2 * t, c)
    ELSE IF m % d = 0 THEN TRUE
    ELSE worker(m, t, h, d + 2 * t, c)

\* the workers idx, ..., t - 1 run in this order: composite after the last
RECURSIVE workers_from(_, _, _, _, _)
workers_from(m, t, h, idx, c) ==
    IF idx >= t THEN c
    ELSE workers_from(m, t, h, idx + 1, worker(m, t, h, FirstDivisor(idx), c))

is_prime_parallel(m, t) ==
    IF m < 2 THEN FALSE
    ELSE IF m % 2 = 0 THEN m = 2
    ELSE IF m % 3 = 0 THEN m = 3
    ELSE IF FloorSqrt(m) < 5 THEN TRUE
    ELSE ~workers_from(m, t, FloorSqrt(m), 0, FALSE)

\* for (long long n = 2; n <= l; ++n) if (is_prime_parallel(n, t)) cout << ...
\* the [PRIME] lines written by the rounds 2..l of the loop: those of the
\* rounds before l, then the line of round l
RECURSIVE ImmediateOutput(_, _)
ImmediateOutput(t, l) ==
    IF ~(2 <= l) THEN <<>>
    ELSE ImmediateOutput(t, l - 1)
             \o (IF is_prime_parallel(l, t) THEN PrimeLine(l, -1) ELSE <<>>)
\* the same for every thread count and limit explored
ImmediateTable ==
    [t \in 1..MaxThreads |-> [l \in 1..DivLimit |-> ImmediateOutput(t, l)]]

(***************************************************************************)
\* the n of [a, b] for which is_prime_trial(n) holds, ascending: what a scan
\* of [a, b] finds
RECURSIVE PrimesIn(_, _)
PrimesIn(a, b) ==
    IF a > b THEN <<>>
    ELSE IF a = b THEN (IF is_prime_trial(a) THEN <<a>> ELSE <<>>)
    ELSE LET m == (a + b) \div 2 IN PrimesIn(a, m) \o PrimesIn(m + 1, b)
\* the [PRIME] lines of the primes ps[a..b], written with worker index w
RECURSIVE LinesFrom(_, _, _, _)
LinesFrom(ps, w, a, b) ==
    IF a > b THEN <<>>
    ELSE IF a = b THEN PrimeLine(ps[a], w)
    ELSE LET m == (a + b) \div 2
         IN  LinesFrom(ps, w, a, m) \o LinesFrom(ps, w, m + 1, b)
LinesOf(ps, w) == LinesFrom(ps, w, 1, Len(ps))
\* the sub-range [a, b] the spawn loop gives to the k-th default worker
DefaultFirst(k) ==
    nmin + (k - 1) * Chunk(DefaultLimit, DefaultThreads)
         + Min(k - 1, Rem(DefaultLimit, DefaultThreads))
DefaultLast(k) == DefaultFirst(k) + RangeLen(DefaultLimit, DefaultThreads, k - 1) - 1
DefaultPrimes == PrimesIn(nmin, DefaultLimit)
\* what the k-th default worker has found when MaxTail candidates are left
DefaultFound ==
    [k \in 1..DefaultThreads |->
       SelectSeq(DefaultPrimes,
                 LAMBDA q : DefaultFirst(k) <= q /\ q <= DefaultLast(k) - MaxTail)]
\* the last candidate of [2, limit] that gets past the pre-checks of
\* is_prime_parallel, so that threads are created for it
LastThreaded ==
    CHOOSE m \in 25..DefaultLimit :
      /\ m % 2 # 0 /\ m % 3 # 0
      /\ \A x \in (m + 1)..DefaultLimit : x % 2 = 0 \/ x % 3 = 0
PrimesToLastThreaded == SelectSeq(DefaultPrimes, LAMBDA q : q <= LastThreaded)
InitDefaults ==
    /\ trial = TrialIdle
    /\ variant \in 1..4
    /\ file = [open |-> FALSE, lines |-> <<>>]
    /\ \/ created = 0 /\ InitLocals
       \/ /\ cfg = Config
          /\ err = <<[tag |-> "WARN"]>>
          /\ exitCode = "none"
          /\ joined = 0
          /\ print_mtx = {}
          /\ pq = {}
          /\ merged = <<>>
          /\ oi = 0
          /\ workers = <<>>
          /\ IF variant \in {1, 2}
             THEN /\ pc = "join"
                  /\ i = DefaultThreads
                  /\ start = DefaultLimit + 1
                  /\ spawned = IF variant = 2 THEN DefaultThreads ELSE 0
                  /\ threads = [k \in 1..DefaultThreads |->
                        [idx |-> k - 1, a |-> DefaultFirst(k), b |-> DefaultLast(k),
                         n |-> DefaultLast(k) - MaxTail + 1, pc |-> "scan"]]
                  /\ buckets = IF variant = 2 THEN DefaultFound ELSE <<>>
                  /\ out = IF variant = 2 THEN <<Frag("START", 0, -1)>>
                           ELSE <<Frag("START", 0, -1)>>
                                  \o LinesOf(DefaultFound[1], 0) \o LinesOf(DefaultFound[2], 1)
                                  \o LinesOf(DefaultFound[3], 2) \o LinesOf(DefaultFound[4], 3)
                  /\ n = 2
                  /\ primes = <<>>
                  /\ hi = 0
                  /\ composite = FALSE
                  /\ result = FALSE
                  /\ created = 0
             ELSE /\ pc = "loop"
                  /\ i = 0
                  /\ start = nmin
                  /\ spawned = 0
                  /\ threads = <<>>
                  /\ buckets = <<>>
                  /\ n = LastThreaded + 1
                  /\ primes = IF variant = 4 THEN PrimesToLastThreaded ELSE <<>>
                  /\ out = IF variant = 3
                           THEN <<Frag("START", 0, -1)>> \o LinesOf(PrimesToLastThreaded, -1)
                           ELSE <<Frag("START", 0, -1)>>
                  \* what the call for LastThreaded has left behind
                  /\ hi = CHOOSE h \in 0..LastThreaded :
                             h * h <= LastThreaded /\ (h + 1) * (h + 1) > LastThreaded
                  /\ composite = ~is_prime_trial(LastThreaded)
                  /\ result = is_prime_trial(LastThreaded)
                  /\ created = DefaultThreads *
                        Cardinality({m \in 25..LastThreaded : m % 2 # 0 /\ m % 3 # 0})
\* the steps of these runs: config.txt is not read, so nothing is validated,
\* and no candidate of the last stretch creates a thread
NextDefaults ==
    \/ load_config
    \/ Start
    \/ SpawnStep
    \/ \E k \in 1..Len(threads) : Scan1(k)
    \/ \E k \in 1..Len(threads) : Acquire(k)
    \/ \E k \in 1..Len(threads) : PrintHead(k)
    \/ \E k \in 1..Len(threads) : PrintTail(k)
    \/ \E k \in 1..Len(threads) : Scan2(k)
    \/ Join
    \/ Seed
    \/ MergeStep
    \/ Results
    \/ PrintMerged
    \/ Summary
    \/ LoopHead
    \/ ParCall
    \/ LoopNext
    \/ SortPrimes
    \/ PrintSorted
    \/ End
    \/ Return
SpecDefaults == InitDefaults /\ [][NextDefaults]_vars

(***************************************************************************)
(* Properties.                                                             *)
(***************************************************************************)
StrictlyAscending(s) == \A x, y \in 1..Len(s) : x < y => s[x] < s[y]
NoDuplicates(s) == \A x, y \in 1..Len(s) : x # y => s[x] # s[y]
ConfigFinal == pc \notin {"load", "validate", "aborted"}
\* the process has returned 0 from main with nothing left behind
ExitedClean ==
    /\ pc = "exited" /\ exitCode = "0"
    /\ \A k \in 1..Len(threads) : threads[k].pc = "done"
    /\ joined = Len(threads)
    /\ workers = <<>>
    /\ print_mtx = {}
IsRange == variant \in {1, 2}

\* the worker index printed with each [PRIME] line, in output order
RECURSIVE AttributionOf(_)
AttributionOf(o) ==
    IF o = <<>> THEN <<>>
    ELSE IF Head(o).tag = "TAIL" THEN <<Head(o).w>> \o AttributionOf(Tail(o))
    ELSE AttributionOf(Tail(o))

\* the primes of [m, L] in ascending order
RECURSIVE PrimesFrom(_, _)
PrimesFrom(m, L) ==
    IF m > L THEN <<>>
    ELSE IF IsPrime(m) THEN <<m>> \o PrimesFrom(m + 1, L)
    ELSE PrimesFrom(m + 1, L)

\* the index of the sub-range that holds m when [2, L] is cut in t near-equal
\* contiguous pieces, the first (L - 1) mod t of them one longer
OwnerOf(m, L, t) ==
    LET q == (L - 1) \div t
        r == (L - 1) % t
        off == m - 2
    IN  IF off < r * (q + 1) THEN off \div (q + 1)
        ELSE r + ((off - r * (q + 1)) \div q)

\* C1: the n values of the [PRIME] lines are, at exit, exactly the primes of
\* [2, limit]; at no time is a composite or a number outside [2, limit] printed,
\* nor a number printed twice (all four variants, every interleaving).
C1_PrintedExactlyPrimes ==
    /\ \A k \in 1..Len(out) : out[k].tag = "PRIME" =>
          /\ IsPrime(out[k].n) /\ out[k].n >= 2 /\ out[k].n <= nmax
          /\ \A j \in 1..(k - 1) : out[j].tag = "PRIME" => out[j].n # out[k].n
    /\ pc = "exited" => PrintedSet = PrimesUpTo(nmax)
C1_Witness ==
    /\ pc = "exited" /\ variant = 1 /\ Len(threads) = 3
    /\ Cardinality(PrintedSet) >= 5

\* C2: the sub-ranges of the spawn loop are contiguous in worker order from 2,
\* pairwise disjoint, of size floor(span/T) or floor(span/T)+1 (the +1 for the
\* first span mod T workers), and once the loop has ended they cover exactly
\* [2, limit]; threads=2, limit=20 gives [2,11] and [12,20].
C2_PartitionExact ==
    ConfigFinal /\ IsRange =>
      LET q == (nmax - 1) \div T
          r == (nmax - 1) % T
          size(k) == threads[k].b - threads[k].a + 1
      IN  /\ \A k \in 1..Len(threads) :
                /\ threads[k].idx = k - 1
                /\ threads[k].a = (IF k = 1 THEN 2 ELSE threads[k - 1].b + 1)
                /\ size(k) = q + (IF k - 1 < r THEN 1 ELSE 0)
                /\ size(k) >= 1
          /\ \A j, k \in 1..Len(threads) :
                /\ j < k => threads[j].b < threads[k].a
                /\ size(j) - size(k) <= 1
          /\ pc = "join" =>
                /\ \A m \in 2..nmax : \E k \in 1..Len(threads) :
                       threads[k].a <= m /\ m <= threads[k].b
                /\ \A k \in 1..Len(threads) : threads[k].a >= 2 /\ threads[k].b <= nmax
                /\ (T = 2 /\ nmax = 20) =>
                       /\ Len(threads) = 2
                       /\ <<threads[1].a, threads[1].b>> = <<2, 11>>
                       /\ <<threads[2].a, threads[2].b>> = <<12, 20>>
C2_Witness ==
    /\ pc = "join" /\ T = 2 /\ nmax = 20 /\ Len(threads) = 2 /\ threads[2].b = 20

\* C3: every call is_prime_parallel(n, T) returns what is_prime_trial(n) returns,
\* whatever the interleaving of the T divisor workers.
C3_ParallelAgrees == pc = "par_ret" => result = is_prime_trial(n)
C3_Witness == pc = "par_ret" /\ n = 121 /\ T = 3 /\ composite /\ ~result

\* C4: the n values printed by variant 2 are strictly ascending (so without
\* duplicates), and at exit variants 1 and 2 have both printed the same set,
\* the numbers of [2, limit] that is_prime_trial accepts.
C4_DelayedAscendingSameSet ==
    /\ variant = 2 => StrictlyAscending(PrintedSeq)
    /\ (pc = "exited" /\ IsRange) =>
          PrintedSet = {m \in 2..nmax : is_prime_trial(m)}
C4_Witness ==
    /\ pc = "exited" /\ variant = 2 /\ Len(threads) = 3 /\ Len(PrintedSeq) >= 5

\* C5: what is printed at exit is a function of the configuration alone: the
\* set of n values in every variant, the whole sequence of n values in the
\* delayed variants 2 and 4, and the found_by_thread attribution in variant 2.
C5_OutputDeterminedByConfig ==
    pc = "exited" =>
      /\ PrintedSet = {PrimesFrom(2, nmax)[k] : k \in 1..Len(PrimesFrom(2, nmax))}
      /\ variant \in {2, 4} => PrintedSeq = PrimesFrom(2, nmax)
      /\ variant = 2 =>
            AttributionOf(out) =
              [k \in 1..Len(PrintedSeq) |-> OwnerOf(PrintedSeq[k], nmax, T)]
C5_Witness ==
    /\ pc = "exited" /\ variant = 2 /\ T = 3 /\ nmax = MaxLimit
    /\ Cardinality({AttributionOf(out)[k] : k \in 1..Len(AttributionOf(out))}) = 3

\* C6: when T exceeds span = limit - 1 in variants 1 and 2, exactly
\* min(T, span) = span workers are launched, each with a non-empty sub-range,
\* and the printed set at exit is still the primes of [2, limit].
C6_ExcessThreadsNotLaunched ==
    (ConfigFinal /\ IsRange /\ T > nmax - 1) =>
      /\ Len(threads) <= Min(T, nmax - 1)
      /\ \A k \in 1..Len(threads) : threads[k].a <= threads[k].b
      /\ pc \notin {"start", "spawn"} =>
            /\ Len(threads) = Min(T, nmax - 1)
            /\ variant = 2 => spawned = Min(T, nmax - 1)
      /\ pc = "exited" => PrintedSet = PrimesUpTo(nmax)
C6_Witness ==
    /\ pc = "exited" /\ variant = 2 /\ T = 3 /\ nmax = 3
    /\ Len(threads) = 2 /\ spawned = 2 /\ PrintedSet = {2, 3}

\* one step of main as C7 constrains it: the validation step, the values in use
\* after it, and the set printed when the limit in use is 2
C7_Step ==
    /\ (pc = "validate" /\ pc' = "start") =>
          /\ cfg'.threads = (IF cfg.threads > 0 THEN cfg.threads ELSE cfg'.threads)
          /\ cfg'.threads >= 1
          /\ cfg'.limit = (IF cfg.limit >= 2 THEN cfg.limit ELSE 2)
    /\ ConfigFinal' => (cfg'.threads >= 1 /\ T' >= 1 /\ nmax' >= 2)
    /\ (pc' = "exited" /\ nmax' = 2) => PrintedSet' = {2}
\* C7: the values main uses satisfy T >= 1 and limit >= 2 for every input: the
\* validation replaces threads <= 0 by a value >= 1, clamps limit < 2 to 2 and
\* leaves valid values unchanged; a limit clamped to 2 yields the set {2}.
C7_ValidatedConfig == [][C7_Step]_vars
C7_Witness == pc = "validate" /\ cfg.threads <= 0 /\ cfg.limit < 2

\* C8: a malformed threads or limit value never aborts the process.
C8_NeverAborts == pc # "aborted" /\ exitCode # "SIGABRT"

\* the places of the main thread and of a range worker as numbers, and their
\* sum with the counters of the loops: a quantity every step raises
PcRank ==
    CASE pc = "load" -> 0
      [] pc = "start" -> 1
      [] pc \in {"spawn", "loop"} -> 2
      [] pc \in {"join", "par_call"} -> 3
      [] pc \in {"seed", "par_ret"} -> 4
      [] pc \in {"merge", "sort"} -> 5
      [] pc = "results" -> 6
      [] pc = "print" -> 7
      [] pc = "summary" -> 8
      [] pc = "end" -> 9
      [] pc = "return" -> 10
      [] OTHER -> 11
ThreadRank(w) ==
    IF w.pc = "done" THEN 4 * (w.b + 2)
    ELSE 4 * w.n + (CASE w.pc = "scan" -> 0 [] w.pc = "lock" -> 1
                      [] w.pc = "head" -> 2 [] OTHER -> 3)
RECURSIVE ThreadRanks(_)
ThreadRanks(k) ==
    IF k > Len(threads) THEN 0 ELSE ThreadRank(threads[k]) + ThreadRanks(k + 1)
Work == PcRank + i + joined + Len(merged) + oi + 3 * n + ThreadRanks(1)
DefaultPrimeSet == {DefaultPrimes[k] : k \in 1..Len(DefaultPrimes)}

\* what holds in every state of a run whose config.txt cannot be opened
C9_Inv ==
    /\ ~file.open
    /\ pc # "load" =>
          /\ err # <<>> /\ err[1] = [tag |-> "WARN"]
          /\ \A k \in 2..Len(err) : err[k].tag = "SUMMARY"
          /\ cfg = [threads |-> 4, limit |-> 100000]
          /\ T = 4 /\ nmax = 100000
    /\ pc \notin {"validate", "aborted"}
    /\ exitCode \in {"none", "0"}
    /\ exitCode = "0" <=> pc = "exited"
    /\ pc \notin {"load", "start"} => out[1].tag = "START"
    /\ (Runnable /\ pc # "exited") => ENABLED NextDefaults
    /\ pc = "exited" =>
          /\ ExitedClean
          /\ out[Len(out)].tag = "END"
          /\ PrintedSet = DefaultPrimeSet
\* C9: when config.txt cannot be opened load_config writes one warning to the
\* error stream and returns threads=4, limit=100000 unchanged; the process is
\* never aborted, prints [START] and launches its workers; and the end of the
\* run with these defaults goes on without stopping, every step a step
\* forward, to the exit with code 0, with every worker joined, [END] written
\* last and the primes of [2, 100000] printed.
C9_MissingFileCompletes == []C9_Inv /\ [][Work' > Work]_vars
C9_Witness ==
    /\ ~file.open /\ variant = 3 /\ ExitedClean
    /\ cfg = [threads |-> 4, limit |-> 100000]
    /\ err = <<[tag |-> "WARN"]>>
    /\ n = 100001
    /\ Len(out) = 2 * 9592 + 2 /\ out[Len(out)].tag = "END"
    /\ out[Len(out) - 1] = Frag("TAIL", 99991, -1)

\* C10: [START] is the first thing written, before any worker exists and before
\* any [PRIME] line; [END] is written when every worker has finished and been
\* joined, after the last [PRIME] line, and nothing is written after it.
C10_StartFirstEndLast ==
    /\ \A k \in 1..Len(out) : (out[k].tag = "START") <=> (k = 1)
    /\ (threads # <<>> \/ workers # <<>>) => out # <<>>
    /\ \A k \in 1..Len(out) : out[k].tag = "END" =>
          /\ k = Len(out)
          /\ \A t \in 1..Len(threads) : threads[t].pc = "done"
          /\ joined = Len(threads)
          /\ workers = <<>>
C10_Witness ==
    /\ pc = "exited" /\ variant = 1 /\ Len(threads) >= 2
    /\ out[Len(out)].tag = "END" /\ Len(PrintedSeq) >= 3

\* C11: in the delayed variants 2 and 4 a [PRIME] line exists only once every
\* worker has terminated and been joined and the whole range has been scanned;
\* [RESULTS] total=N precedes every [PRIME] line, N is the number of primes of
\* [2, limit], and exactly N [PRIME] lines follow it.
C11_DelayedPrintAfterJoin ==
    variant \in {2, 4} =>
      /\ PrintedSeq # <<>> =>
            /\ pc \in {"print", "summary", "end", "return", "exited"}
            /\ \A t \in 1..Len(threads) :
                   threads[t].pc = "done" /\ threads[t].n > threads[t].b
            /\ joined = Len(threads)
            /\ workers = <<>>
            /\ variant = 2 => Len(threads) = Min(T, nmax - 1)
            /\ variant = 4 => n > nmax
      /\ \A k \in 1..Len(out) : out[k].tag = "RESULTS" =>
            /\ out[k].n = Cardinality(PrimesUpTo(nmax))
            /\ \A j \in 1..(k - 1) : out[j].tag \notin {"PRIME", "TAIL", "RESULTS"}
            /\ Len(PrintedSeq) <= out[k].n
            /\ pc \in {"summary", "end", "return", "exited"} =>
                   Len(PrintedSeq) = out[k].n
      /\ pc \in {"summary", "end", "return", "exited"} =>
            \E k \in 1..Len(out) : out[k].tag = "RESULTS"
C11_Witness ==
    /\ variant = 4 /\ pc = "exited" /\ T >= 2 /\ Len(PrintedSeq) >= 5
    /\ out[2] = Frag("RESULTS", Len(PrintedSeq), -1)

\* the workers that are inside the print section
InPrint == {k \in 1..Len(threads) : threads[k].pc \in {"head", "tail"}}

\* C12: in variant 1 at most one worker is inside the section guarded by
\* print_mtx at any moment, and every [PRIME] line is one uninterrupted unit:
\* its first part is directly followed by its own remainder, nothing of another
\* worker's line in between.
C12_OneWorkerPrints ==
    variant = 1 =>
      /\ Cardinality(print_mtx) <= 1
      /\ Cardinality(InPrint) <= 1
      /\ \A k \in 1..Len(out) :
            /\ out[k].tag = "PRIME" =>
                  IF k < Len(out)
                  THEN out[k + 1] = Frag("TAIL", out[k].n, out[k].w)
                  ELSE \E t \in InPrint :
                         /\ threads[t].pc = "tail"
                         /\ threads[t].idx = out[k].w
                         /\ threads[t].n = out[k].n
            /\ out[k].tag = "TAIL" =>
                  k > 1 /\ out[k - 1] = Frag("PRIME", out[k].n, out[k].w)
C12_Witness ==
    /\ variant = 1 /\ Len(threads) = 3
    /\ threads[2].pc = "tail" /\ print_mtx = {1}
    /\ threads[1].pc = "lock" /\ threads[3].pc = "lock"
    /\ out[Len(out)].tag = "PRIME"

\* the number of fragments of one kind that carry one worker index
CountFrags(o, tag, w) ==
    Cardinality({j \in 1..Len(o) : o[j].tag = tag /\ o[j].w = w})

\* C13: a variant 1 worker holds print_mtx exactly while it emits one prime it
\* has found: never while it evaluates is_prime_trial or the loop test, one
\* line per acquisition (the lines of a worker are the primes it has passed,
\* plus the one being written), the lock released before the next candidate;
\* a worker without a prime in its sub-range never reaches the lock.
C13_LockOnlyWhilePrinting ==
    (variant = 1 /\ Runnable) =>
      \A k \in 1..Len(threads) :
        LET w == threads[k]
            passed == Cardinality({m \in w.a..(w.n - 1) : IsPrime(m)})
        IN  /\ (w.idx \in print_mtx) <=> (w.pc \in {"head", "tail"})
            /\ w.pc \in {"scan", "done"} => w.idx \notin print_mtx
            /\ w.pc \in {"lock", "head", "tail"} =>
                  IsPrime(w.n) /\ w.a <= w.n /\ w.n <= w.b
            /\ CountFrags(out, "PRIME", w.idx) =
                  passed + (IF w.pc = "tail" THEN 1 ELSE 0)
            /\ CountFrags(out, "TAIL", w.idx) = passed
            /\ (\A m \in w.a..w.b : ~IsPrime(m)) =>
                  /\ w.pc \in {"scan", "done"}
                  /\ CountFrags(out, "PRIME", w.idx) = 0
C13_Witness ==
    /\ variant = 1 /\ Runnable /\ Len(threads) = 3
    /\ PrimesFrom(threads[3].a, threads[3].b) = <<>> /\ threads[3].pc = "done"
    /\ threads[1].pc = "head" /\ print_mtx = {0}
    /\ threads[2].pc = "scan" /\ ~IsPrime(threads[2].n)
    /\ CountFrags(out, "TAIL", 1) = 1 /\ CountFrags(out, "TAIL", 0) = 1

\* a worker that has not yet started the line of some prime of its sub-range
HasPending(k) ==
    /\ threads[k].pc \in {"scan", "lock"}
    /\ PrimesFrom(threads[k].n, threads[k].b) # <<>>

\* C14: the order of the variant 1 lines across workers is left to the
\* scheduler: whenever two launched workers each still have a prime to print
\* and nobody is printing, either of them can take the next step, whatever
\* their indices and whatever the other has done, so for p < q in different
\* sub-ranges both p before q and q before p are executions.
C14_EitherWorkerMayGoFirst ==
    (variant = 1 /\ Runnable) =>
      \A j, k \in 1..Len(threads) :
        (j < k /\ HasPending(j) /\ HasPending(k) /\ print_mtx = {}) =>
          /\ ENABLED (Scan1(j) \/ Acquire(j))
          /\ ENABLED (Scan1(k) \/ Acquire(k))
          /\ (threads[j].pc = "lock" /\ threads[k].pc = "lock") =>
                (ENABLED Acquire(j)) /\ (ENABLED Acquire(k))
\* an output with a larger prime before a smaller one of another worker, and
\* later a smaller one before a larger one of another worker
C14_Witness ==
    /\ variant = 1
    /\ \E x, y, z \in 1..Len(out) :
          /\ x < y /\ y < z
          /\ out[x].tag = "PRIME" /\ out[y].tag = "PRIME" /\ out[z].tag = "PRIME"
          /\ out[x].n > out[y].n /\ out[x].w > out[y].w
          /\ out[y].n < out[z].n /\ out[y].w < out[z].w

\* C15: what one range worker produces is strictly ascending at every moment:
\* in variant 2 each bucket after each append (and it holds numbers of its
\* owner's sub-range already scanned), in variant 1 the [PRIME] lines that
\* carry one worker index, in output order.
C15_WorkerOutputAscending ==
    /\ variant = 2 =>
          \A b \in 1..Len(buckets) :
            /\ StrictlyAscending(buckets[b])
            /\ \A x \in 1..Len(buckets[b]) :
                  /\ b <= Len(threads)
                  /\ threads[b].a <= buckets[b][x]
                  /\ buckets[b][x] < threads[b].n
    /\ variant = 1 =>
          \A x, y \in 1..Len(out) :
            (x < y /\ out[x].tag = "PRIME" /\ out[y].tag = "PRIME"
                   /\ out[x].w = out[y].w) => out[x].n < out[y].n
C15_Witness ==
    /\ variant = 2 /\ Len(threads) = 2
    /\ Len(buckets[1]) >= 3 /\ threads[1].pc = "scan"
    /\ Len(buckets[2]) >= 1 /\ threads[2].pc = "scan"

\* is_prime_trial on the inputs that stay within the checker's integers:
\* it answers as the definition of a prime does, by the four cases of C16
TrialCorrectSmall ==
    (trial.pc = "ret" /\ Len(trial.n) <= 4) =>
      LET m == LLVal(trial.n)
      IN  /\ trial.ret = IsPrime(m)
          /\ trial.ret = is_prime_trial(m)
          /\ m < 2 => ~trial.ret
          /\ m \in {2, 3} => trial.ret
          /\ (m > 3 /\ (m % 2 = 0 \/ m % 3 = 0)) => ~trial.ret
          /\ (m > 3 /\ m % 2 # 0 /\ m % 3 # 0) =>
                (~trial.ret <=> \E d \in 5..FloorSqrt(m) :
                                  d % 6 \in {1, 5} /\ m % d = 0)
\* is_prime_trial on the 63-bit inputs: it returns, and returns the truth
TrialCorrectWide ==
    /\ trial.pc # "spin"
    /\ (trial.pc = "ret" /\ trial.n = WidePrime) => trial.ret
    /\ (trial.pc = "ret" /\ trial.n = WideComposite) => ~trial.ret

\* C16: is_prime_trial(n) is total and returns true exactly when n is prime,
\* for every n >= 0: false below 2, true for 2 and 3, false for the other
\* multiples of 2 or 3, otherwise false iff a number 6k-1 or 6k+1 between 5
\* and floor(sqrt(n)) divides n.
C16_TrialTotalAndCorrect == TrialCorrectSmall /\ TrialCorrectWide

\* the divisors that the loop of worker idx visits up to h:
\* start, start + 2T, start + 4T, ...
Owns(idx, d, h) ==
    d <= h /\ d >= FirstDivisor(idx) /\ (d - FirstDivisor(idx)) % Stride = 0
\* the divisors that somebody has to try: odd, not a multiple of 3
IsCandidate(d) == d >= 5 /\ d % 2 = 1 /\ d % 3 # 0
Candidates(h) == {d \in 5..h : IsCandidate(d)}
\* the pairs <<worker, position>> at which divisor d has been tried
TriedAt(d) ==
    {p \in UNION {{<<k, x>> : x \in 1..Len(workers[k].tested)} : k \in 1..Len(workers)} :
       workers[p[1]].tested[p[2]] = d}

\* C17: in is_prime_parallel the strided shares of the T workers partition
\* the odd numbers of [5, hi]: each has exactly one owner; a worker tries only
\* divisors of its own share, in ascending order, never a multiple of 3; a
\* worker that was not stopped early has tried every candidate of its share,
\* and in a call without early stop every candidate of [5, hi] has been tried
\* exactly once, by its owner.
C17_StridedSharesPartition ==
    pc \in {"par_spawn", "par_join"} =>
      /\ workers = <<>> =>
            \A h \in 5..MaxHi : \A d \in 5..h :
              d % 2 = 1 => Cardinality({idx \in 0..(T - 1) : Owns(idx, d, h)}) = 1
      /\ \A k \in 1..Len(workers) :
            LET w == workers[k]
            IN  /\ StrictlyAscending(w.tested)
                /\ \A x \in 1..Len(w.tested) :
                      Owns(w.idx, w.tested[x], hi) /\ IsCandidate(w.tested[x])
                /\ (w.pc = "done" /\ w.d > hi) =>
                      \A d \in 5..hi : (Owns(w.idx, d, hi) /\ IsCandidate(d)) =>
                        \E x \in 1..Len(w.tested) : w.tested[x] = d
      /\ (pc = "par_join" /\ joined = Len(workers) /\ ~composite) =>
            \A d \in Candidates(hi) :
              /\ Cardinality(TriedAt(d)) = 1
              /\ \A p \in TriedAt(d) : Owns(workers[p[1]].idx, d, hi)
C17_Witness ==
    /\ pc = "par_join" /\ joined = Len(workers) /\ ~composite
    /\ T = 2 /\ hi = 13
    /\ workers[1].tested = <<5, 13>> /\ workers[2].tested = <<7, 11>>

\* the calls that is_prime_parallel answers before it creates any thread
FastPath(m) == m < 2 \/ m % 2 = 0 \/ m % 3 = 0 \/ FloorSqrt(m) < 5

\* one step of is_prime_parallel as C18 constrains it
C18_Step ==
    /\ (pc = "par_call" /\ pc' = "par_ret") => (FastPath(n) /\ workers' = <<>>)
    /\ (pc = "par_call" /\ pc' = "par_spawn") => (~FastPath(n) /\ workers' = <<>>)
    /\ (pc = "par_call" /\ FastPath(n)) => pc' \in {"par_call", "par_ret"}
    /\ pc' \in {"par_spawn", "par_join"} => (pc # "par_ret" /\ Len(workers') <= T')
    /\ pc' = "par_join" => Len(workers') = T'
    /\ (pc = "par_join" /\ pc' = "par_ret") =>
          /\ Len(workers) = T
          /\ joined = T
          /\ \A k \in 1..Len(workers) : workers[k].pc = "done"
          /\ result' = ~composite
\* C18: is_prime_parallel(n, T) creates no worker when n < 2, n is a multiple
\* of 2 or 3, or floor(sqrt(n)) < 5; otherwise it creates exactly T workers,
\* joins all T of them whether or not a divisor was found, and reads composite
\* for its return value only when all T have terminated.
C18_WorkersCreatedAndJoined == [][C18_Step]_vars
C18_Witness ==
    /\ pc = "par_join" /\ T = 3 /\ Len(workers) = 3 /\ joined = 3 /\ composite
    /\ \A k \in 1..3 : workers[k].pc = "done"
    /\ workers[2].late = 1

\* worker w has left its loop by the break: its last test found a divisor
FoundDivisor(w, m, h) ==
    /\ w.pc = "done" /\ w.tested # <<>> /\ w.tested[Len(w.tested)] = w.d
    /\ 5 <= w.d /\ w.d <= h /\ m % w.d = 0

\* one step of is_prime_parallel as C19 constrains it
C19_Step ==
    /\ (pc = "par_call" /\ pc' = "par_spawn") => ~composite'
    /\ (pc \in {"par_spawn", "par_join"} /\ composite) => composite'
    /\ (pc \in {"par_spawn", "par_join"} /\ ~composite /\ composite') =>
          \E k \in 1..Len(workers) :
            /\ workers[k].pc = "body" /\ n % workers[k].d = 0
            /\ FoundDivisor(workers'[k], n, hi)
    /\ (pc' \in {"par_spawn", "par_join"} /\ composite') =>
          \E k \in 1..Len(workers') : FoundDivisor(workers'[k], n', hi')
    /\ (pc = "par_join" /\ pc' = "par_ret") =>
          /\ result' = ~composite
          /\ result' <=> ~\E k \in 1..Len(workers) : FoundDivisor(workers[k], n, hi)
\* C19: within one call the flag composite starts false, is only ever
\* written with true and never reset, is true only if some worker found a d
\* with 5 <= d <= floor(sqrt(n)) and n mod d = 0, and the call returns prime
\* exactly when the flag was never set.
C19_FlagSetOnceByDivisor == [][C19_Step]_vars
C19_Witness ==
    /\ pc = "par_join" /\ composite /\ T = 2 /\ n = 145
    /\ FoundDivisor(workers[1], n, hi) /\ workers[1].d = 5
    /\ workers[2].tested = <<7, 11>> /\ workers[2].pc = "check"

\* C20: early stop.  A worker loads composite in its loop condition before
\* every candidate divisor, so a worker all of whose loads returned the last
\* stored value evaluates n mod d at most once after composite was set (the
\* test it had already been admitted to), and none at all when it was created
\* after composite was set.
C20_EarlyStop ==
    pc \in {"par_spawn", "par_join"} =>
      \A k \in 1..Len(workers) :
        LET w == workers[k]
        IN  ~w.stale =>
              /\ w.late <= 1
              /\ (composite /\ w.pc = "body") => w.late = 0
              /\ (composite /\ w.pc = "check") =>
                    (ENABLED DwCheck(k)) /\ ~ENABLED (DwCheck(k) /\ workers'[k].pc = "body"
                                                       /\ ~workers'[k].stale)
              /\ w.born => (w.tested = <<>> /\ w.late = 0 /\ w.pc # "body")
C20_Witness ==
    /\ pc = "par_join" /\ composite /\ T = 3 /\ n = 161
    /\ workers[1].tested = <<5>> /\ workers[1].late = 1 /\ ~workers[1].stale
    /\ workers[1].d = 11 /\ workers[1].pc = "done"
    /\ workers[3].born /\ ~workers[3].stale /\ workers[3].d = 9
    /\ workers[3].tested = <<>> /\ workers[3].pc = "done"

\* what a call answers when every load of composite returns the last value
\* stored: prime exactly when no odd d of [5, h] that is not a multiple of 3
\* divides m
NoDivisor(m, h) == ~\E d \in 5..h : d % 2 = 1 /\ d % 3 # 0 /\ m % d = 0
\* no worker of the call has loaded a false older than the last store
AllFresh == \A k \in 1..Len(workers) : ~workers[k].stale

\* the return of is_prime_parallel as C21 constrains it
C21_Step ==
    (pc = "par_join" /\ pc' = "par_ret") =>
      /\ AllFresh => result' = NoDivisor(n, hi)
      /\ ~AllFresh => result' = NoDivisor(n, hi)
      /\ (\E k \in 1..Len(workers) : workers[k].late >= 2) => ~AllFresh
\* C21: the early-stop flag changes the work done, not the answer: a call in
\* which some worker loaded a stale false from composite (at any of its loop
\* checks, or at all of them) returns the same boolean, for the same n and T,
\* as a call in which every load returned the last value stored.
C21_StaleLoadsSameResult == [][C21_Step]_vars
C21_Witness ==
    /\ pc = "par_join" /\ joined = Len(workers) /\ T = 2 /\ n = 145 /\ composite
    /\ workers[1].tested = <<5>> /\ ~workers[1].stale
    /\ workers[2].stale /\ workers[2].tested = <<7, 11>> /\ workers[2].late = 2
    /\ workers[2].d > hi

\* the values that merged has taken from bucket bi, in the order it took them
TakenFrom(bi) ==
    LET sel == SelectSeq(merged, LAMBDA e : e[2] = bi)
    IN  [k \in 1..Len(sel) |-> sel[k][1]]
\* the merge between two iterations: merged is ascending, what it took from a
\* bucket is a prefix of that bucket, the heap holds the next element of every
\* bucket that has one, and when the loop has ended every bucket is used up
MergeInv ==
    (variant = 2 /\ pc \in {"merge", "results"}) =>
      /\ \A x, y \in 1..Len(merged) : x < y => merged[x][1] <= merged[y][1]
      /\ \A e \in 1..Len(merged) : merged[e][2] \in 0..(Len(buckets) - 1)
      /\ \A b \in 1..Len(buckets) :
            LET took == TakenFrom(b - 1)
            IN  /\ Len(took) <= Len(buckets[b])
                /\ took = SubSeq(buckets[b], 1, Len(took))
                /\ pc = "merge" =>
                      IF Len(took) < Len(buckets[b])
                      THEN Node(buckets[b][Len(took) + 1], b - 1, Len(took)) \in pq
                      ELSE \A x \in pq : x.bi # b - 1
                /\ pc = "results" => took = buckets[b]
      /\ Cardinality(pq) <= Len(buckets)
\* C22: the k-way merge terminates, and merged is then ascending and holds
\* every element of every bucket exactly once (what merged took from a bucket
\* is that bucket, in its order), for any buckets that are each ascending,
\* empty buckets included.
C22_MergeSortedComplete == []MergeInv /\ <>(pc = "results")
C22_Witness ==
    /\ pc = "results" /\ Len(buckets) = 3
    /\ buckets = <<(<<1, 4>>), <<>>, (<<2, 4>>)>>
    /\ merged = <<(<<1, 0>>), (<<2, 2>>), (<<4, 2>>), (<<4, 0>>)>>

\* one step of variant 2 as C23 constrains it: who writes a bucket, and when
\* the main thread reads one
C23_Step ==
    (variant = 2 /\ pc # "start") =>
      /\ Len(buckets') = Len(buckets)
      /\ \A j, k \in 1..Len(threads) : j # k => threads[j].idx # threads[k].idx
      /\ \A b \in 1..Len(buckets) :
            /\ buckets'[b] # buckets[b] =>
                  /\ pc \in {"spawn", "join"} /\ joined < b
                  /\ b <= Len(threads) /\ threads[b].idx = b - 1
                  /\ threads[b].pc = "scan" /\ threads'[b].n = threads[b].n + 1
                  /\ buckets'[b] = Append(buckets[b], threads[b].n)
                  /\ \A c \in 1..Len(buckets) : c # b => buckets'[c] = buckets[c]
                  /\ \A c \in 1..Len(threads) : c # b => threads'[c] = threads[c]
            /\ b > Len(threads) => buckets[b] = <<>>
      /\ (pc \in {"seed", "merge", "summary"} \/ pq # {} \/ merged # <<>>) =>
            /\ joined = Len(threads)
            /\ \A k \in 1..Len(threads) : threads[k].pc = "done"
            /\ spawned = Len(threads)
            /\ buckets' = buckets
\* C23: in variant 2 bucket i is written by worker i alone (no two workers
\* have the same index, a step that changes a bucket is a step of its owner
\* and changes no other bucket), the merge and the summary read the buckets
\* only when every launched worker has terminated and been joined, and the
\* bucket of a worker that was not launched stays empty.
C23_BucketsPrivate == [][C23_Step]_vars
C23_Witness ==
    /\ variant = 2 /\ pc = "merge" /\ T = 3 /\ Len(threads) = 2
    /\ buckets = <<(<<2>>), (<<3>>), <<>>>> /\ Len(merged) = 1

\* C24: under fair scheduling every variant terminates for every valid
\* configuration: once the configuration is loaded the run reaches the exit
\* with code 0, and there every launched worker has left its loop and been
\* joined and the print lock is free (so no worker is left waiting for it).
C24_Terminates == (ConfigFinal /\ Runnable) ~> ExitedClean
C24_Witness ==
    /\ ExitedClean /\ variant = 1 /\ Len(threads) = 3
    /\ \E x, y \in 1..Len(out) :
          x < y /\ out[x].tag = "PRIME" /\ out[y].tag = "PRIME" /\ out[x].n > out[y].n

\* C25 as stated: in variants 3 and 4 every candidate of [2, limit] gets T
\* threads, so a finished run has created T * (limit - 1) threads.
C25_ThreadsForEveryCandidate ==
    (variant \in {3, 4} /\ pc = "exited") => created = T * (nmax - 1)

\* the candidates that is_prime_parallel does not answer by its pre-checks
SlowCandidates(L) == {m \in 25..L : m % 2 # 0 /\ m % 3 # 0}
\* C25, amended: in variants 3 and 4, T threads are created for each candidate
\* n of [2, limit] that is at least 25 and a multiple of neither 2 nor 3, and
\* none for the others, so one run creates T times the number of such
\* candidates, which is less than T * (limit - 1).
C25_ThreadsForSlowCandidates ==
    /\ variant \in {1, 2} => created = 0
    /\ (variant \in {3, 4} /\ ConfigFinal) =>
          /\ pc = "par_call" => created = T * Cardinality(SlowCandidates(n - 1))
          /\ pc = "par_ret" => created = T * Cardinality(SlowCandidates(n))
          /\ pc = "exited" =>
                /\ created = T * Cardinality(SlowCandidates(nmax))
                /\ created < T * (nmax - 1)
C25_Witness ==
    /\ variant = 3 /\ pc = "exited" /\ T = 3 /\ nmax = 121 /\ created = 99

\* C26: in variant 4 the primes collected by the sequential loop are strictly
\* ascending at every moment (each below the candidates still to come), so
\* the sequence handed to sort is already sorted and sort returns it
\* unchanged, for every limit and T.
C26_SortLeavesPrimesUnchanged ==
    variant = 4 =>
      /\ StrictlyAscending(primes)
      /\ pc \in {"loop", "par_call", "par_spawn", "par_join", "par_ret"} =>
            \A k \in 1..Len(primes) : primes[k] < n
      /\ pc = "sort" => sort(primes) = primes
C26_Witness ==
    /\ variant = 4 /\ pc = "sort" /\ T = 2 /\ nmax = 121
    /\ Len(primes) = 30 /\ primes[1] = 2 /\ primes[30] = 113

\* some [PRIME] line of output o comes before one with a smaller n
HasInversion(o) ==
    \E x, y \in 1..Len(o) :
      x < y /\ o[x].tag = "PRIME" /\ o[y].tag = "PRIME" /\ o[x].n > o[y].n

\* the fragments of the [PRIME] lines of output o, in output order
PrimeFrags(o) == SelectSeq(o, LAMBDA f : f.tag \in {"PRIME", "TAIL"})

\* C27 as stated: an execution of variant 3 exists in which a larger prime is
\* printed before a smaller one.  An execution is fixed by the thread count,
\* the limit and the schedule of the divisor workers; the lines it writes are
\* ImmediateOutput(T, nmax) under every schedule (C27_ImmediateInOrder), so
\* the statement is that the executable of variant 3 has a thread count and
\* a limit for which these lines hold a larger prime before a smaller one.
C27_SomeRunOutOfOrder ==
    variant = 3 =>
      \E t \in 1..MaxThreads, l \in 2..DivLimit : HasInversion(ImmediateTable[t][l])

\* C27, amended: variant 3 prints each prime as soon as it is found, and its
\* [PRIME] lines are in ascending numeric order in every execution: a line is
\* written by the main thread for the current candidate, after the lines of
\* all smaller primes, and the candidates only grow.  Whatever the schedule
\* of the divisor workers, the lines written when the loop stands at n are
\* those of the sequential loop over [2, n - 1], and at the exit those of
\* the loop over [2, nmax].
C27_ImmediateInOrder ==
    variant = 3 =>
      /\ ~HasInversion(out)
      /\ \A x \in 1..Len(out) : out[x].tag = "PRIME" =>
            /\ out[x].w = -1
            /\ pc \in {"loop", "par_call", "par_spawn", "par_join", "par_ret"} =>
                  out[x].n < n
      /\ (pc = "par_ret" /\ result) => ENABLED (LoopNext /\ out' = out \o PrimeLine(n, -1))
      /\ (T <= MaxThreads /\ nmax <= DivLimit) =>
            /\ pc \in {"loop", "par_call", "par_spawn", "par_join", "par_ret"} =>
                  /\ n \in 2..(Max(nmax, 1) + 1)
                  /\ PrimeFrags(out) = ImmediateTable[T][n - 1]
            /\ pc \in {"end", "return", "exited"} =>
                  PrimeFrags(out) = ImmediateTable[T][Max(nmax, 1)]
C27_Witness ==
    /\ variant = 3 /\ pc = "exited" /\ T = 3 /\ nmax = 121
    /\ Len(PrintedSeq) = 30 /\ ~HasInversion(out)
    /\ PrimeFrags(out) = ImmediateOutput(3, 121)
    /\ PrintedSeq[29] = 109 /\ PrintedSeq[30] = 113

\* the divisor workers that have not left their loop
Alive == {k \in 1..Len(workers) : workers[k].pc # "done"}

\* one step of variants 3 and 4 as C28 constrains it
C28_Step ==
    variant \in {3, 4} =>
      /\ Len(workers) <= T /\ Cardinality(Alive) <= T
      /\ workers # <<>> =>
            /\ pc \in {"par_spawn", "par_join"}
            /\ hi = FloorSqrt(n)
            /\ \A k \in 1..Len(workers) :
                  /\ workers[k].idx = k - 1
                  /\ \A x \in 1..Len(workers[k].tested) : workers[k].tested[x] <= hi
      /\ (workers # <<>> \/ workers' # <<>>) => (n' = n /\ out' = out /\ primes' = primes)
      /\ n' # n => (n' = n + 1 /\ pc = "par_ret" /\ joined = 0)
      /\ Len(workers') > Len(workers) =>
            /\ pc = "par_spawn" /\ joined = 0
            /\ Len(workers') = Len(workers) + 1
      /\ (workers # <<>> /\ workers' = <<>>) =>
            /\ Alive = {} /\ joined = Len(workers) /\ Len(workers) = T
      /\ (variant = 3 /\ Len(out') > Len(out) /\ pc # "start" /\ pc # "end") =>
            /\ pc = "par_ret" /\ workers = <<>> /\ threads = <<>>
            /\ out' = out \o PrimeLine(n, -1)
\* C28: in variants 3 and 4 the candidates are processed one at a time: at
\* most T divisor workers exist at any moment, all created by the call for
\* the current n; n advances only when none exists; a worker is created only
\* when the workers of the call before have all terminated and been joined;
\* and variant 3 writes the [PRIME] line of n from the main thread while no
\* worker exists.
C28_OneCandidateAtATime == [][C28_Step]_vars
C28_Witness ==
    /\ variant = 3 /\ T = 3 /\ pc = "par_join" /\ n = 85
    /\ Alive = {1, 2, 3} /\ Len(PrintedSeq) = 23

\* the buckets from the k-th on, one after the other, each element paired
\* with the index of its bucket
RECURSIVE BucketsInOrder(_, _)
BucketsInOrder(bs, k) ==
    IF k > Len(bs) THEN <<>>
    ELSE [x \in 1..Len(bs[k]) |-> <<bs[k][x], k - 1>>] \o BucketsInOrder(bs, k + 1)

\* C29: in variant 2 every entry (p, i) of merged names a launched worker i
\* whose sub-range [a_i, b_i] holds p, the indices along merged never
\* decrease, the finished merge is the buckets one after the other in index
\* order, and each line printed carries the pair of its entry.
C29_ProvenanceCorrect ==
    variant = 2 =>
      /\ \A e \in 1..Len(merged) :
            LET p == merged[e][1]
                w == merged[e][2]
            IN  /\ w \in 0..(spawned - 1) /\ w + 1 <= Len(threads)
                /\ threads[w + 1].idx = w
                /\ threads[w + 1].a <= p /\ p <= threads[w + 1].b
                /\ w = OwnerOf(p, nmax, T)
      /\ \A x, y \in 1..Len(merged) : x < y => merged[x][2] <= merged[y][2]
      /\ pc \in {"results", "print", "summary", "end", "return", "exited"} =>
            merged = BucketsInOrder(buckets, 1)
      /\ \A x \in 1..Len(out) : out[x].tag = "TAIL" =>
            \E e \in 1..Len(merged) : merged[e] = <<out[x].n, out[x].w>> /\ x = 2 * e + 2
C29_Witness ==
    /\ variant = 2 /\ pc = "print" /\ T = 3 /\ nmax = 12 /\ oi = 4
    /\ merged = <<(<<2, 0>>), (<<3, 0>>), (<<5, 0>>), (<<7, 1>>), (<<11, 2>>)>>

====
